---- MODULE Spec2Model ----
(***************************************************************************)
(* A model of gbrust: the CPU (src/src/cpu.rs) and the MMU with its LCD    *)
(* timing (src/src/mmu.rs).  The CPU registers and the MMU are records;    *)
(* every method is an operator from the state before the call to the state *)
(* after it (and the method's result), and every action applies one        *)
(* method.  `last` names the call the last step made and `old` is the      *)
(* state that call started from; `prev` is the call before it, where a     *)
(* specification follows pairs of calls; `drv` is the driver loop of main   *)
(* and `rom` the ROM file it was started on.                               *)
(***************************************************************************)
EXTENDS Integers, Sequences, FiniteSets, TLC

VARIABLES cpu, mmu, last, old, prev, nops, total, visited, modes, drv, rom

vars == <<cpu, mmu, last, old, prev, nops, total, visited, modes, drv, rom>>

----------------------------------------------------------------------------
(* Fixed-width integer arithmetic.                                          *)

RECURSIVE AndBits(_, _, _)
AndBits(x, y, n) ==
    IF n = 0 THEN 0
    ELSE (IF x % 2 = 1 /\ y % 2 = 1 THEN 1 ELSE 0)
         + 2 * AndBits(x \div 2, y \div 2, n - 1)

RECURSIVE OrBits(_, _, _)
OrBits(x, y, n) ==
    IF n = 0 THEN 0
    ELSE (IF x % 2 = 1 \/ y % 2 = 1 THEN 1 ELSE 0)
         + 2 * OrBits(x \div 2, y \div 2, n - 1)

\* x & y and x | y on values of at most 16 bits
BitAnd(x, y) == AndBits(x, y, 16)

BitOr(x, y) == OrBits(x, y, 16)

\* u8 and u16 truncation (wrapping_add, wrapping_sub, `as u8`)
U8(x) == x % 256

U16(x) == x % 65536

----------------------------------------------------------------------------
(* The MMU: src/src/mmu.rs.                                                 *)

LCDC == \hFF40
STAT == \hFF41
LY == \hFF44
LYC == \hFF45

\* A zero-initialised byte array, kept as the function of its non-zero cells.
ZeroArr == [i \in {} |-> 0]

Get(arr, i) == IF i \in DOMAIN arr THEN arr[i] ELSE 0

Put(arr, i, v) ==
    IF v = 0
    THEN [j \in DOMAIN arr \ {i} |-> arr[j]]
    ELSE [j \in DOMAIN arr \cup {i} |-> IF j = i THEN v ELSE arr[j]]

MMU_new ==
    [ rom_bank0   |-> ZeroArr,
      rom_bankn   |-> ZeroArr,
      vram        |-> ZeroArr,
      ext_ram     |-> ZeroArr,
      wram        |-> ZeroArr,
      oam         |-> ZeroArr,
      io_regs     |-> ZeroArr,
      hram        |-> ZeroArr,
      ie_register |-> 0,
      header      |-> "None",
      cycles      |-> 0,
      scanline    |-> 0,
      mode        |-> 0 ]

\* read_byte that indexes high RAM from the base of the I/O range.
read_byte_hram_at_io_base(m, address) ==
    IF address <= \h3FFF THEN Get(m.rom_bank0, address)
    ELSE IF address <= \h7FFF THEN Get(m.rom_bankn, address - \h4000)
    ELSE IF address <= \h9FFF THEN Get(m.vram, address - \h8000)
    ELSE IF address <= \hBFFF THEN Get(m.ext_ram, address - \hA000)
    ELSE IF address <= \hDFFF THEN Get(m.wram, address - \hC000)
    ELSE IF address <= \hFDFF THEN Get(m.wram, address - \hE000)
    ELSE IF address <= \hFE9F THEN Get(m.oam, address - \hFE00)
    ELSE IF address >= \hFF00 /\ address <= \hFF7F
         THEN Get(m.io_regs, address - \hFF00)
    ELSE IF address >= \hFF80 /\ address <= \hFFFE
         THEN Get(m.hram, address - \hFF00)
    ELSE IF address = \hFFFF THEN m.ie_register
    ELSE \hFF

\* read_byte whose sprite-table arm runs on to 0xFEFF.
read_byte_oam_to_feff(m, address) ==
    IF address <= \h3FFF THEN Get(m.rom_bank0, address)
    ELSE IF address <= \h7FFF THEN Get(m.rom_bankn, address - \h4000)
    ELSE IF address <= \h9FFF THEN Get(m.vram, address - \h8000)
    ELSE IF address <= \hBFFF THEN Get(m.ext_ram, address - \hA000)
    ELSE IF address <= \hDFFF THEN Get(m.wram, address - \hC000)
    ELSE IF address <= \hFDFF THEN Get(m.wram, address - \hE000)
    ELSE IF address <= \hFEFF THEN Get(m.oam, address - \hFE00)
    ELSE IF address >= \hFF00 /\ address <= \hFF7F
         THEN Get(m.io_regs, address - \hFF00)
    ELSE IF address >= \hFF80 /\ address <= \hFFFE
         THEN Get(m.hram, address - \hFF80)
    ELSE IF address = \hFFFF THEN m.ie_register
    ELSE \hFF

read_byte(m, address) ==
    IF address <= \h3FFF THEN Get(m.rom_bank0, address)
    ELSE IF address <= \h7FFF THEN Get(m.rom_bankn, address - \h4000)
    ELSE IF address <= \h9FFF THEN Get(m.vram, address - \h8000)
    ELSE IF address <= \hBFFF THEN Get(m.ext_ram, address - \hA000)
    ELSE IF address <= \hDFFF THEN Get(m.wram, address - \hC000)
    ELSE IF address <= \hFDFF THEN Get(m.wram, address - \hE000)
    ELSE IF address <= \hFE9F THEN Get(m.oam, address - \hFE00)
    ELSE IF address >= \hFF00 /\ address <= \hFF7F
         THEN Get(m.io_regs, address - \hFF00)
    ELSE IF address >= \hFF80 /\ address <= \hFFFE
         THEN Get(m.hram, address - \hFF80)
    ELSE IF address = \hFFFF THEN m.ie_register
    ELSE \hFF

\* write_byte with the LCDC, STAT and LY arms placed before the arm of the
\* whole I/O range, so that they are taken.
write_byte_lcd_arms_first(m, address, value) ==
    IF address <= \h7FFF THEN m
    ELSE IF address <= \h9FFF
         THEN [m EXCEPT !.vram = Put(@, address - \h8000, value)]
    ELSE IF address <= \hBFFF
         THEN [m EXCEPT !.ext_ram = Put(@, address - \hA000, value)]
    ELSE IF address <= \hDFFF
         THEN [m EXCEPT !.wram = Put(@, address - \hC000, value)]
    ELSE IF address <= \hFDFF
         THEN [m EXCEPT !.wram = Put(@, address - \hE000, value)]
    ELSE IF address <= \hFE9F
         THEN [m EXCEPT !.oam = Put(@, address - \hFE00, value)]
    ELSE IF address = LCDC
         THEN [m EXCEPT !.io_regs = Put(@, address - \hFF00, value)]
    ELSE IF address = STAT
         THEN LET current == Get(m.io_regs, address - \hFF00)
              IN  [m EXCEPT !.io_regs =
                      Put(@, address - \hFF00,
                          BitOr(BitAnd(value, \h78), BitAnd(current, \h87)))]
    ELSE IF address = LY
         THEN [m EXCEPT !.scanline = 0,
                        !.io_regs = Put(@, address - \hFF00, 0)]
    ELSE IF address >= \hFF00 /\ address <= \hFF7F
         THEN [m EXCEPT !.io_regs = Put(@, address - \hFF00, value)]
    ELSE IF address >= \hFF80 /\ address <= \hFFFE
         THEN [m EXCEPT !.hram = Put(@, address - \hFF80, value)]
    ELSE IF address = \hFFFF THEN [m EXCEPT !.ie_register = value]
    ELSE m

\* write_byte that stores into the two ROM banks.
write_byte_rom_writable(m, address, value) ==
    IF address <= \h3FFF
         THEN [m EXCEPT !.rom_bank0 = Put(@, address, value)]
    ELSE IF address <= \h7FFF
         THEN [m EXCEPT !.rom_bankn = Put(@, address - \h4000, value)]
    ELSE IF address <= \h9FFF
         THEN [m EXCEPT !.vram = Put(@, address - \h8000, value)]
    ELSE IF address <= \hBFFF
         THEN [m EXCEPT !.ext_ram = Put(@, address - \hA000, value)]
    ELSE IF address <= \hDFFF
         THEN [m EXCEPT !.wram = Put(@, address - \hC000, value)]
    ELSE IF address <= \hFDFF
         THEN [m EXCEPT !.wram = Put(@, address - \hE000, value)]
    ELSE IF address <= \hFE9F
         THEN [m EXCEPT !.oam = Put(@, address - \hFE00, value)]
    ELSE IF address >= \hFF00 /\ address <= \hFF7F
         THEN [m EXCEPT !.io_regs = Put(@, address - \hFF00, value)]
    ELSE IF address = LCDC
         THEN [m EXCEPT !.io_regs = Put(@, address - \hFF00, value)]
    ELSE IF address = STAT
         THEN LET current == Get(m.io_regs, address - \hFF00)
              IN  [m EXCEPT !.io_regs =
                      Put(@, address - \hFF00,
                          BitOr(BitAnd(value, \h78), BitAnd(current, \h87)))]
    ELSE IF address = LY
         THEN [m EXCEPT !.scanline = 0,
                        !.io_regs = Put(@, address - \hFF00, 0)]
    ELSE IF address >= \hFF80 /\ address <= \hFFFE
         THEN [m EXCEPT !.hram = Put(@, address - \hFF80, value)]
    ELSE IF address = \hFFFF THEN [m EXCEPT !.ie_register = value]
    ELSE m

\* write_byte that drops a write to the echo range.
write_byte_without_echo(m, address, value) ==
    IF address <= \h7FFF THEN m
    ELSE IF address <= \h9FFF
         THEN [m EXCEPT !.vram = Put(@, address - \h8000, value)]
    ELSE IF address <= \hBFFF
         THEN [m EXCEPT !.ext_ram = Put(@, address - \hA000, value)]
    ELSE IF address <= \hDFFF
         THEN [m EXCEPT !.wram = Put(@, address - \hC000, value)]
    ELSE IF address <= \hFDFF THEN m
    ELSE IF address <= \hFE9F
         THEN [m EXCEPT !.oam = Put(@, address - \hFE00, value)]
    ELSE IF address >= \hFF00 /\ address <= \hFF7F
         THEN [m EXCEPT !.io_regs = Put(@, address - \hFF00, value)]
    ELSE IF address = LCDC
         THEN [m EXCEPT !.io_regs = Put(@, address - \hFF00, value)]
    ELSE IF address = STAT
         THEN LET current == Get(m.io_regs, address - \hFF00)
              IN  [m EXCEPT !.io_regs =
                      Put(@, address - \hFF00,
                          BitOr(BitAnd(value, \h78), BitAnd(current, \h87)))]
    ELSE IF address = LY
         THEN [m EXCEPT !.scanline = 0,
                        !.io_regs = Put(@, address - \hFF00, 0)]
    ELSE IF address >= \hFF80 /\ address <= \hFFFE
         THEN [m EXCEPT !.hram = Put(@, address - \hFF80, value)]
    ELSE IF address = \hFFFF THEN [m EXCEPT !.ie_register = value]
    ELSE m

\* write_byte that folds work RAM onto its first 4 KiB.
write_byte_wram_folded(m, address, value) ==
    IF address <= \h7FFF THEN m
    ELSE IF address <= \h9FFF
         THEN [m EXCEPT !.vram = Put(@, address - \h8000, value)]
    ELSE IF address <= \hBFFF
         THEN [m EXCEPT !.ext_ram = Put(@, address - \hA000, value)]
    ELSE IF address <= \hDFFF
         THEN [m EXCEPT !.wram = Put(@, (address - \hC000) % \h1000, value)]
    ELSE IF address <= \hFDFF
         THEN [m EXCEPT !.wram = Put(@, address - \hE000, value)]
    ELSE IF address <= \hFE9F
         THEN [m EXCEPT !.oam = Put(@, address - \hFE00, value)]
    ELSE IF address >= \hFF00 /\ address <= \hFF7F
         THEN [m EXCEPT !.io_regs = Put(@, address - \hFF00, value)]
    ELSE IF address = LCDC
         THEN [m EXCEPT !.io_regs = Put(@, address - \hFF00, value)]
    ELSE IF address = STAT
         THEN LET current == Get(m.io_regs, address - \hFF00)
              IN  [m EXCEPT !.io_regs =
                      Put(@, address - \hFF00,
                          BitOr(BitAnd(value, \h78), BitAnd(current, \h87)))]
    ELSE IF address = LY
         THEN [m EXCEPT !.scanline = 0,
                        !.io_regs = Put(@, address - \hFF00, 0)]
    ELSE IF address >= \hFF80 /\ address <= \hFFFE
         THEN [m EXCEPT !.hram = Put(@, address - \hFF80, value)]
    ELSE IF address = \hFFFF THEN [m EXCEPT !.ie_register = value]
    ELSE m

\* The match arms in the order of the source: the first arm that matches is
\* taken, so the arm of 0xFF00..=0xFF7F takes LCDC, STAT and LY too.
write_byte(m, address, value) ==
    IF address <= \h7FFF THEN m
    ELSE IF address <= \h9FFF
         THEN [m EXCEPT !.vram = Put(@, address - \h8000, value)]
    ELSE IF address <= \hBFFF
         THEN [m EXCEPT !.ext_ram = Put(@, address - \hA000, value)]
    ELSE IF address <= \hDFFF
         THEN [m EXCEPT !.wram = Put(@, address - \hC000, value)]
    ELSE IF address <= \hFDFF
         THEN [m EXCEPT !.wram = Put(@, address - \hE000, value)]
    ELSE IF address <= \hFE9F
         THEN [m EXCEPT !.oam = Put(@, address - \hFE00, value)]
    ELSE IF address >= \hFF00 /\ address <= \hFF7F
         THEN [m EXCEPT !.io_regs = Put(@, address - \hFF00, value)]
    ELSE IF address = LCDC
         THEN [m EXCEPT !.io_regs = Put(@, address - \hFF00, value)]
    ELSE IF address = STAT
         THEN LET current == Get(m.io_regs, address - \hFF00)
              IN  [m EXCEPT !.io_regs =
                      Put(@, address - \hFF00,
                          BitOr(BitAnd(value, \h78), BitAnd(current, \h87)))]
    ELSE IF address = LY
         THEN [m EXCEPT !.scanline = 0,
                        !.io_regs = Put(@, address - \hFF00, 0)]
    ELSE IF address >= \hFF80 /\ address <= \hFFFE
         THEN [m EXCEPT !.hram = Put(@, address - \hFF80, value)]
    ELSE IF address = \hFFFF THEN [m EXCEPT !.ie_register = value]
    ELSE m

\* The cartridge title: bytes 0x134..=0x143 with the zero bytes at both ends
\* trimmed (the bytes of the images are ASCII, which from_utf8_lossy keeps).
Title(bank) ==
    LET raw == [i \in 1..16 |-> Get(bank, \h0134 + i - 1)]
        nz == {i \in 1..16 : raw[i] # 0}
    IN  IF nz = {} THEN << >>
        ELSE SubSeq(raw,
                    CHOOSE i \in nz : \A j \in nz : i <= j,
                    CHOOSE i \in nz : \A j \in nz : i >= j)

parse_header(m) ==
    [m EXCEPT !.header =
        [ title          |-> Title(m.rom_bank0),
          cartridge_type |-> Get(m.rom_bank0, \h0147),
          rom_size       |-> Get(m.rom_bank0, \h0148),
          ram_size       |-> Get(m.rom_bank0, \h0149) ]]

\* buffer is the content of the file: its length and its non-zero bytes.
\* The first 0x4000 bytes go to bank 0; the next 0x4000, if there are any,
\* to bank n; cells the file does not reach keep what they held.
load_rom(m, buffer) ==
    LET copied0 == {i \in DOMAIN buffer.bytes : i < \h4000}
        kept0 == {i \in DOMAIN m.rom_bank0 : i >= buffer.len}
        bank0 == [i \in copied0 \cup kept0 |->
                     IF i \in copied0 THEN buffer.bytes[i] ELSE m.rom_bank0[i]]
        copiedn == {i - \h4000 : i \in {j \in DOMAIN buffer.bytes :
                                           j >= \h4000 /\ j < \h8000}}
        keptn == {i \in DOMAIN m.rom_bankn : i + \h4000 >= buffer.len}
        bankn == IF buffer.len > \h4000
                 THEN [i \in copiedn \cup keptn |->
                          IF i \in copiedn THEN buffer.bytes[i + \h4000]
                          ELSE m.rom_bankn[i]]
                 ELSE m.rom_bankn
    IN  parse_header([m EXCEPT !.rom_bank0 = bank0, !.rom_bankn = bankn])

\* One scanline takes 456 cycles; a frame has 154 scanlines.
ScanlineCycles == 456

Scanlines == 154

\* lcd_mode with `>` for `>=` in the test for VBlank.
lcd_mode_late_vblank(cycles, scanline) ==
    LET within == IF cycles <= 80 THEN 2
                  ELSE IF cycles <= 252 THEN 3
                  ELSE 0
    IN  IF scanline > 144 THEN 1 ELSE within

\* The mode update_lcd chooses after it has advanced the scanline.
lcd_mode(cycles, scanline) ==
    LET within == IF cycles <= 80 THEN 2
                  ELSE IF cycles <= 252 THEN 3
                  ELSE 0
    IN  IF scanline >= 144 THEN 1 ELSE within

\* update_lcd with `>` for `>=` in the test of the accumulator.
update_lcd_strict(m, cycles) ==
    LET c1 == m.cycles + cycles IN
    IF c1 > ScanlineCycles
    THEN LET c2   == c1 - ScanlineCycles
             sl   == (m.scanline + 1) % Scanlines
             m1   == write_byte([m EXCEPT !.cycles = c2, !.scanline = sl], LY, sl)
             m2   == [m1 EXCEPT !.mode = lcd_mode(m1.cycles, m1.scanline)]
             stat == BitOr(BitAnd(read_byte(m2, STAT), \hFC), m2.mode)
         IN  write_byte(m2, STAT, stat)
    ELSE [m EXCEPT !.cycles = c1]

\* The accumulator is a u32; the cycle counts driven here keep it far below
\* 2^32, so `+=` never overflows.
update_lcd(m, cycles) ==
    LET c1 == m.cycles + cycles IN
    IF c1 >= ScanlineCycles
    THEN LET c2   == c1 - ScanlineCycles
             sl   == (m.scanline + 1) % Scanlines
             m1   == write_byte([m EXCEPT !.cycles = c2, !.scanline = sl], LY, sl)
             m2   == [m1 EXCEPT !.mode = lcd_mode(m1.cycles, m1.scanline)]
             stat == BitOr(BitAnd(read_byte(m2, STAT), \hFC), m2.mode)
         IN  write_byte(m2, STAT, stat)
    ELSE [m EXCEPT !.cycles = c1]

----------------------------------------------------------------------------
(* The CPU: src/src/cpu.rs.                                                 *)

ZERO_FLAG == 7
SUBTRACT_FLAG == 6
HALF_CARRY_FLAG == 5
CARRY_FLAG == 4

\* Result<_, CPUError>: Ok(val), Err(NoMMU), Err(UnknownOpcode(val))
Ok(v) == [tag |-> "Ok", val |-> v]

NoMMU == [tag |-> "NoMMU", val |-> 0]

\* UnknownOpcode that does not carry the opcode.
UnknownOpcode_without_byte(opcode) == [tag |-> "UnknownOpcode", val |-> 0]

UnknownOpcode(opcode) == [tag |-> "UnknownOpcode", val |-> opcode]

\* What a method leaves: the registers, the memory and its result.
Out(c, m, r) == [cpu |-> c, mmu |-> m, res |-> r]

\* The field mmu: Option<MMU> is has_mmu together with the variable mmu.
CPU_new ==
    [ a |-> 0, f |-> 0, b |-> 0, c |-> 0, d |-> 0, e |-> 0, h |-> 0, l |-> 0,
      sp |-> 0, pc |-> 0,
      debug_mode |-> FALSE, has_mmu |-> FALSE, interrupt_enabled |-> TRUE ]

\* initialize that leaves PC where it is.
initialize_without_pc(c) ==
    [c EXCEPT !.a = \h01, !.f = \hB0, !.b = \h00, !.c = \h13, !.d = \h00,
              !.e = \hD8, !.h = \h01, !.l = \h4D, !.sp = \hFFFE]

initialize(c) ==
    [c EXCEPT !.a = \h01, !.f = \hB0, !.b = \h00, !.c = \h13, !.d = \h00,
              !.e = \hD8, !.h = \h01, !.l = \h4D, !.sp = \hFFFE, !.pc = \h0000]

\* set_flag that counts the flag's bit from the low nibble (1 << (flag - 4)).
set_flag_in_low_nibble(c, flag, value) ==
    IF value THEN [c EXCEPT !.f = BitOr(@, 2^(flag - 4))]
    ELSE [c EXCEPT !.f = BitAnd(@, 255 - 2^(flag - 4))]

set_flag(c, flag, value) ==
    IF value THEN [c EXCEPT !.f = BitOr(@, 2^flag)]
    ELSE [c EXCEPT !.f = BitAnd(@, 255 - 2^flag)]

get_flag(c, flag) == BitAnd(c.f, 2^flag) # 0

ld_b_n(c, n) == [c EXCEPT !.b = n]

ld_c_n(c, n) == [c EXCEPT !.c = n]

\* ld_hl_dec_a that decrements HL before it stores (LD (--HL),A).
ld_hl_dec_a_predecrement(c, m) ==
    LET hl == c.h * 256 + c.l IN
    IF c.has_mmu
    THEN LET new_hl == U16(hl + 65536 - 1)
         IN  Out([c EXCEPT !.h = new_hl \div 256, !.l = U8(new_hl)],
                 write_byte(m, new_hl, c.a), Ok(0))
    ELSE Out(c, m, NoMMU)

ld_hl_dec_a(c, m) ==
    LET hl == c.h * 256 + c.l IN
    IF c.has_mmu
    THEN LET new_hl == U16(hl + 65536 - 1)
         IN  Out([c EXCEPT !.h = new_hl \div 256, !.l = U8(new_hl)],
                 write_byte(m, hl, c.a), Ok(0))
    ELSE Out(c, m, NoMMU)

ld_a_d(c) == [c EXCEPT !.a = c.d]

ld_a_n(c, n) == [c EXCEPT !.a = n]

\* ldh_n_a that takes n for the whole address.
ldh_n_a_without_page(c, m, n) ==
    IF c.has_mmu
    THEN Out(c, write_byte(m, n, c.a), Ok(0))
    ELSE Out(c, m, NoMMU)

ldh_n_a(c, m, n) ==
    LET address == BitOr(\hFF00, n) IN
    IF c.has_mmu
    THEN Out(c, write_byte(m, address, c.a), Ok(0))
    ELSE Out(c, m, NoMMU)

inc_b(c) ==
    LET c1 == [c EXCEPT !.b = U8(c.b + 1)]
        c2 == set_flag(c1, ZERO_FLAG, c1.b = 0)
        c3 == set_flag(c2, SUBTRACT_FLAG, FALSE)
    IN  set_flag(c3, HALF_CARRY_FLAG, BitAnd(c3.b, \h0F) = 0)

\* inc_c with a saturating add for the wrapping add.
inc_c_saturating(c) ==
    LET c1 == [c EXCEPT !.c = IF c.c = 255 THEN 255 ELSE c.c + 1]
        c2 == set_flag(c1, ZERO_FLAG, c1.c = 0)
        c3 == set_flag(c2, SUBTRACT_FLAG, FALSE)
    IN  set_flag(c3, HALF_CARRY_FLAG, BitAnd(c3.c, \h0F) = 0)

inc_c(c) ==
    LET c1 == [c EXCEPT !.c = U8(c.c + 1)]
        c2 == set_flag(c1, ZERO_FLAG, c1.c = 0)
        c3 == set_flag(c2, SUBTRACT_FLAG, FALSE)
    IN  set_flag(c3, HALF_CARRY_FLAG, BitAnd(c3.c, \h0F) = 0)

inc_d(c) ==
    LET c1 == [c EXCEPT !.d = U8(c.d + 1)]
        c2 == set_flag(c1, ZERO_FLAG, c1.d = 0)
        c3 == set_flag(c2, SUBTRACT_FLAG, FALSE)
    IN  set_flag(c3, HALF_CARRY_FLAG, BitAnd(c3.d, \h0F) = 0)

dec_b(c) ==
    LET c1 == [c EXCEPT !.b = U8(c.b + 256 - 1)]
        c2 == set_flag(c1, ZERO_FLAG, c1.b = 0)
        c3 == set_flag(c2, SUBTRACT_FLAG, TRUE)
    IN  set_flag(c3, HALF_CARRY_FLAG, BitAnd(c3.b, \h0F) = \h0F)

dec_c(c) ==
    LET c1 == [c EXCEPT !.c = U8(c.c + 256 - 1)]
        c2 == set_flag(c1, ZERO_FLAG, c1.c = 0)
        c3 == set_flag(c2, SUBTRACT_FLAG, TRUE)
    IN  set_flag(c3, HALF_CARRY_FLAG, BitAnd(c3.c, \h0F) = \h0F)

\* dec_d with the half-carry test of the increment (low nibble 0 after).
dec_d_half_carry_of_inc(c) ==
    LET c1 == [c EXCEPT !.d = U8(c.d + 256 - 1)]
        c2 == set_flag(c1, ZERO_FLAG, c1.d = 0)
        c3 == set_flag(c2, SUBTRACT_FLAG, TRUE)
    IN  set_flag(c3, HALF_CARRY_FLAG, BitAnd(c3.d, \h0F) = 0)

dec_d(c) ==
    LET c1 == [c EXCEPT !.d = U8(c.d + 256 - 1)]
        c2 == set_flag(c1, ZERO_FLAG, c1.d = 0)
        c3 == set_flag(c2, SUBTRACT_FLAG, TRUE)
    IN  set_flag(c3, HALF_CARRY_FLAG, BitAnd(c3.d, \h0F) = \h0F)

\* a ^ a is 0 for every a
xor_a(c) ==
    LET c1 == [c EXCEPT !.a = 0]
        c2 == set_flag(c1, ZERO_FLAG, TRUE)
        c3 == set_flag(c2, SUBTRACT_FLAG, FALSE)
        c4 == set_flag(c3, HALF_CARRY_FLAG, FALSE)
    IN  set_flag(c4, CARRY_FLAG, FALSE)

\* adc_a_c whose half-carry leaves the carry-in out.
adc_a_c_half_carry_without_carry_in(c) ==
    LET a          == c.a
        cc         == c.c
        carry      == IF get_flag(c, CARRY_FLAG) THEN 1 ELSE 0
        result     == a + cc + carry
        half_carry == (BitAnd(a, \h0F) + BitAnd(cc, \h0F)) > \h0F
        c1 == [c EXCEPT !.a = U8(result)]
        c2 == set_flag(c1, ZERO_FLAG, c1.a = 0)
        c3 == set_flag(c2, SUBTRACT_FLAG, FALSE)
        c4 == set_flag(c3, HALF_CARRY_FLAG, half_carry)
    IN  set_flag(c4, CARRY_FLAG, result > \hFF)

adc_a_c(c) ==
    LET a          == c.a
        cc         == c.c
        carry      == IF get_flag(c, CARRY_FLAG) THEN 1 ELSE 0
        result     == a + cc + carry
        half_carry == (BitAnd(a, \h0F) + BitAnd(cc, \h0F) + carry) > \h0F
        c1 == [c EXCEPT !.a = U8(result)]
        c2 == set_flag(c1, ZERO_FLAG, c1.a = 0)
        c3 == set_flag(c2, SUBTRACT_FLAG, FALSE)
        c4 == set_flag(c3, HALF_CARRY_FLAG, half_carry)
    IN  set_flag(c4, CARRY_FLAG, result > \hFF)

\* rra that rotates the eight bits of A alone (the carry is not shifted in).
rra_without_carry_in(c) ==
    LET new_carry == BitAnd(c.a, \h01)
        c1 == [c EXCEPT !.a = BitOr(c.a \div 2, U8(new_carry * 128))]
        c2 == set_flag(c1, ZERO_FLAG, FALSE)
        c3 == set_flag(c2, SUBTRACT_FLAG, FALSE)
        c4 == set_flag(c3, HALF_CARRY_FLAG, FALSE)
    IN  set_flag(c4, CARRY_FLAG, new_carry = 1)

\* rra that sets the zero flag from the rotated result.
rra_zero_from_result(c) ==
    LET carry     == IF get_flag(c, CARRY_FLAG) THEN 1 ELSE 0
        new_carry == BitAnd(c.a, \h01)
        c1 == [c EXCEPT !.a = BitOr(c.a \div 2, U8(carry * 128))]
        c2 == set_flag(c1, ZERO_FLAG, c1.a = 0)
        c3 == set_flag(c2, SUBTRACT_FLAG, FALSE)
        c4 == set_flag(c3, HALF_CARRY_FLAG, FALSE)
    IN  set_flag(c4, CARRY_FLAG, new_carry = 1)

rra(c) ==
    LET carry     == IF get_flag(c, CARRY_FLAG) THEN 1 ELSE 0
        new_carry == BitAnd(c.a, \h01)
        c1 == [c EXCEPT !.a = BitOr(c.a \div 2, U8(carry * 128))]
        c2 == set_flag(c1, ZERO_FLAG, FALSE)
        c3 == set_flag(c2, SUBTRACT_FLAG, FALSE)
        c4 == set_flag(c3, HALF_CARRY_FLAG, FALSE)
    IN  set_flag(c4, CARRY_FLAG, new_carry = 1)

ld_hl_nn(c, nn) == [c EXCEPT !.l = BitAnd(nn, \hFF), !.h = nn \div 256]

ld_sp_nn(c, nn) == [c EXCEPT !.sp = nn]

jp(c, addr) == [c EXCEPT !.pc = addr]

\* jr_nz_n with the offset added unsigned (n as u16).
jr_nz_n_unsigned(c, n) ==
    IF ~get_flag(c, ZERO_FLAG)
    THEN [c EXCEPT !.pc = U16(c.pc + n)]
    ELSE c

\* n as i8 as i16 as u16: 0x80..0xFF become 0xFF80..0xFFFF
jr_nz_n(c, n) ==
    IF ~get_flag(c, ZERO_FLAG)
    THEN [c EXCEPT !.pc = U16(c.pc + (IF n >= 128 THEN n + \hFF00 ELSE n))]
    ELSE c

nop(c) == c

di(c) == [c EXCEPT !.interrupt_enabled = FALSE]

\* ei that does nothing.
ei_without_effect(c) == c

ei(c) == [c EXCEPT !.interrupt_enabled = TRUE]

\* The stack pointer is decremented before the MMU is looked for.
rst_18(c, m) ==
    LET c1 == [c EXCEPT !.sp = U16(c.sp + 65536 - 1)] IN
    IF c1.has_mmu
    THEN LET m1 == write_byte(m, c1.sp, c1.pc \div 256)
             c2 == [c1 EXCEPT !.sp = U16(c1.sp + 65536 - 1)]
             m2 == write_byte(m1, c2.sp, U8(c2.pc))
         IN  Out([c2 EXCEPT !.pc = \h0018], m2, Ok(0))
    ELSE Out(c1, m, NoMMU)

\* rst_38 that pushes the low byte first (at the higher address).
rst_38_low_byte_first(c, m) ==
    LET c1 == [c EXCEPT !.sp = U16(c.sp + 65536 - 1)] IN
    IF c1.has_mmu
    THEN LET m1 == write_byte(m, c1.sp, U8(c1.pc))
             c2 == [c1 EXCEPT !.sp = U16(c1.sp + 65536 - 1)]
             m2 == write_byte(m1, c2.sp, c2.pc \div 256)
         IN  Out([c2 EXCEPT !.pc = \h0038], m2, Ok(0))
    ELSE Out(c1, m, NoMMU)

rst_38(c, m) ==
    LET c1 == [c EXCEPT !.sp = U16(c.sp + 65536 - 1)] IN
    IF c1.has_mmu
    THEN LET m1 == write_byte(m, c1.sp, c1.pc \div 256)
             c2 == [c1 EXCEPT !.sp = U16(c1.sp + 65536 - 1)]
             m2 == write_byte(m1, c2.sp, U8(c2.pc))
         IN  Out([c2 EXCEPT !.pc = \h0038], m2, Ok(0))
    ELSE Out(c1, m, NoMMU)

\* fetch_byte that advances PC before it reads.
fetch_byte_preincrement(c, m) ==
    IF c.has_mmu
    THEN Out([c EXCEPT !.pc = U16(c.pc + 1)], m,
             Ok(read_byte(m, U16(c.pc + 1))))
    ELSE Out(c, m, NoMMU)

fetch_byte(c, m) ==
    IF c.has_mmu
    THEN Out([c EXCEPT !.pc = U16(c.pc + 1)], m, Ok(read_byte(m, c.pc)))
    ELSE Out(c, m, NoMMU)

\* fetch_word that takes the byte at PC for the high byte.
fetch_word_big_endian(c, m) ==
    IF c.has_mmu
    THEN LET high_byte == read_byte(m, c.pc)
             low_byte  == read_byte(m, U16(c.pc + 1))
         IN  Out([c EXCEPT !.pc = U16(c.pc + 2)], m,
                 Ok(BitOr(high_byte * 256, low_byte)))
    ELSE Out(c, m, NoMMU)

fetch_word(c, m) ==
    IF c.has_mmu
    THEN LET low_byte  == read_byte(m, c.pc)
             high_byte == read_byte(m, U16(c.pc + 1))
         IN  Out([c EXCEPT !.pc = U16(c.pc + 2)], m,
                 Ok(BitOr(high_byte * 256, low_byte)))
    ELSE Out(c, m, NoMMU)

set_mmu(c) == [c EXCEPT !.has_mmu = TRUE]

\* let n = self.fetch_byte()?; (or fetch_word) and then the instruction: the
\* error of the fetch f is returned, else the registers c2 the instruction leaves.
AfterFetch(f, c2) ==
    IF f.res.tag = "Ok" THEN Out(c2, f.mmu, Ok(0)) ELSE f

\* The debug_mode branches only print.
execute(c, m, opcode) ==
    LET fb == fetch_byte(c, m)
        fw == fetch_word(c, m)
        n  == fb.res.val
        nn == fw.res.val
    IN
    IF opcode = \h00 THEN Out(nop(c), m, Ok(0))
    ELSE IF opcode = \h06 THEN AfterFetch(fb, ld_b_n(fb.cpu, n))
    ELSE IF opcode = \h04 THEN Out(inc_b(c), m, Ok(0))
    ELSE IF opcode = \h05 THEN Out(dec_b(c), m, Ok(0))
    ELSE IF opcode = \h0C THEN Out(inc_c(c), m, Ok(0))
    ELSE IF opcode = \h0D THEN Out(dec_c(c), m, Ok(0))
    ELSE IF opcode = \h0E THEN AfterFetch(fb, ld_c_n(fb.cpu, n))
    ELSE IF opcode = \h14 THEN Out(inc_d(c), m, Ok(0))
    ELSE IF opcode = \h15 THEN Out(dec_d(c), m, Ok(0))
    ELSE IF opcode = \h1F THEN Out(rra(c), m, Ok(0))
    ELSE IF opcode = \h20 THEN AfterFetch(fb, jr_nz_n(fb.cpu, n))
    ELSE IF opcode = \h21 THEN AfterFetch(fw, ld_hl_nn(fw.cpu, nn))
    ELSE IF opcode = \h31 THEN AfterFetch(fw, ld_sp_nn(fw.cpu, nn))
    ELSE IF opcode = \h32 THEN ld_hl_dec_a(c, m)
    ELSE IF opcode = \h3E THEN AfterFetch(fb, ld_a_n(fb.cpu, n))
    ELSE IF opcode = \h89 THEN Out(adc_a_c(c), m, Ok(0))
    ELSE IF opcode = \hAF THEN Out(xor_a(c), m, Ok(0))
    ELSE IF opcode = \hC3 THEN AfterFetch(fw, jp(fw.cpu, nn))
    ELSE IF opcode = \hDF THEN rst_18(c, m)
    ELSE IF opcode = \hFF THEN rst_38(c, m)
    ELSE IF opcode = \h7A THEN Out(ld_a_d(c), m, Ok(0))
    ELSE IF opcode = \hE0
         THEN IF fb.res.tag = "Ok" THEN ldh_n_a(fb.cpu, fb.mmu, n) ELSE fb
    ELSE IF opcode = \hF3 THEN Out(di(c), m, Ok(0))
    ELSE IF opcode = \hFB THEN Out(ei(c), m, Ok(0))
    ELSE Out(c, m, UnknownOpcode(opcode))

\* print_state that takes the byte it shows with fetch_byte.
print_state_fetching(c) == [c EXCEPT !.pc = U16(c.pc + 1)]

\* print_state borrows the CPU (&self) and prints its registers.
print_state(c) == c

\* Under debug_mode step prints the state and the byte at PC, which it reads
\* with read_byte, and then goes on as without it.
step(c, m) ==
    LET shown == IF c.debug_mode THEN print_state(c) ELSE c
        fb == fetch_byte(shown, m)
    IN  IF fb.res.tag = "Ok" THEN execute(fb.cpu, fb.mmu, fb.res.val)
        ELSE fb

----------------------------------------------------------------------------
(* The state after construction: CPU::new() and MMU::new(), not attached.   *)

NoCall == [name |-> "new", a1 |-> 0, a2 |-> 0, res |-> Ok(0)]

NoPrev == [name |-> "new", cpu |-> CPU_new]

\* main has not started.
NoDriver == [pos |-> "none"]

\* No ROM file has been read.
NoRom == [len |-> 0, bytes |-> ZeroArr]

Init ==
    /\ cpu = CPU_new
    /\ mmu = MMU_new
    /\ last = NoCall
    /\ old = [cpu |-> CPU_new, mmu |-> MMU_new]
    /\ prev = NoPrev
    /\ nops = 0
    /\ total = 0
    /\ visited = << >>
    /\ modes = << >>
    /\ drv = NoDriver
    /\ rom = NoRom

\* A call that leaves r: `last` names it, `old` keeps the state it started from.
Call(name, a1, a2, r) ==
    /\ cpu' = r.cpu
    /\ mmu' = r.mmu
    /\ last' = [name |-> name, a1 |-> a1, a2 |-> a2, res |-> r.res]
    /\ old' = [cpu |-> cpu, mmu |-> mmu]

----------------------------------------------------------------------------
(* The MMU on its own: software writes to the display registers and        *)
(* update_lcd with cycle counts below, at and above one scanline.          *)

\* The largest accumulator the model lets update_lcd build up.
MaxAccum == 1000

CycleArgs == {152, 456, 912}

LcdAddrs == {STAT, LY}

WriteVals == {\h00, \hA5, \hFF}

WriteByte(address, value) ==
    /\ Call("write_byte", address, value,
            Out(cpu, write_byte(mmu, address, value), Ok(0)))
    /\ UNCHANGED <<prev, nops, total, visited, modes, drv, rom>>

UpdateLcd(cycles) ==
    /\ mmu.cycles + cycles <= MaxAccum
    /\ Call("update_lcd", cycles, 0, Out(cpu, update_lcd(mmu, cycles), Ok(0)))
    /\ UNCHANGED <<prev, nops, total, visited, modes, drv, rom>>

NextLcd ==
    \/ \E address \in LcdAddrs, value \in WriteVals : WriteByte(address, value)
    \/ \E cycles \in CycleArgs : UpdateLcd(cycles)

SpecLcd == Init /\ [][NextLcd]_vars

----------------------------------------------------------------------------
(* One frame of the timing controller, driven by per-instruction cycle     *)
(* counts and no software write.  total counts the cycles driven, visited  *)
(* lists the scanlines entered, modes the modes seen in this scanline.     *)

MinCost == 4

MaxCost == 24

FrameCycles == ScanlineCycles * Scanlines

Observe(seq, x) ==
    IF seq # << >> /\ seq[Len(seq)] = x THEN seq ELSE Append(seq, x)

FrameStep(cycles) ==
    /\ total + cycles <= FrameCycles
    /\ mmu' = update_lcd(mmu, cycles)
    /\ total' = total + cycles
    /\ visited' = IF mmu'.scanline # mmu.scanline
                  THEN Append(visited, mmu'.scanline)
                  ELSE visited
    /\ modes' = IF mmu'.scanline # mmu.scanline
                THEN << mmu'.mode >>
                ELSE Observe(modes, mmu'.mode)
    /\ UNCHANGED <<cpu, last, old, prev, nops, drv, rom>>

NextFrame == \E cycles \in MinCost..MaxCost : FrameStep(cycles)

SpecFrame == Init /\ [][NextFrame]_vars

----------------------------------------------------------------------------
(* The CPU: calls of its public methods, at most MaxOps of them.           *)

MaxOps == 3

Implemented ==
    { \h00, \h04, \h05, \h06, \h0C, \h0D, \h0E, \h14, \h15, \h1F, \h20, \h21,
      \h31, \h32, \h3E, \h7A, \h89, \hAF, \hC3, \hDF, \hE0, \hF3, \hFB, \hFF }

\* execute is called on every byte value.
OpcodeArgs == 0..255

ByteArgs == {\h44, \h80}

CpuCall(name, a1, a2, r) ==
    /\ nops < MaxOps
    /\ nops' = nops + 1
    /\ Call(name, a1, a2, r)
    /\ UNCHANGED <<prev, total, visited, modes, drv, rom>>

Initialize == CpuCall("initialize", 0, 0, Out(initialize(cpu), mmu, Ok(0)))

SetMmu == CpuCall("set_mmu", 0, 0, Out(set_mmu(cpu), mmu, Ok(0)))

Step == CpuCall("step", 0, 0, step(cpu, mmu))

Execute(opcode) == CpuCall("execute", opcode, 0, execute(cpu, mmu, opcode))

FetchByte == CpuCall("fetch_byte", 0, 0, fetch_byte(cpu, mmu))

FetchWord == CpuCall("fetch_word", 0, 0, fetch_word(cpu, mmu))

LdHlDecA == CpuCall("ld_hl_dec_a", 0, 0, ld_hl_dec_a(cpu, mmu))

LdhNA(n) == CpuCall("ldh_n_a", n, 0, ldh_n_a(cpu, mmu, n))

Rst18 == CpuCall("rst_18", 0, 0, rst_18(cpu, mmu))

Rst38 == CpuCall("rst_38", 0, 0, rst_38(cpu, mmu))

Next ==
    \/ Initialize
    \/ SetMmu
    \/ Step
    \/ \E opcode \in OpcodeArgs : Execute(opcode)
    \/ FetchByte
    \/ FetchWord
    \/ LdHlDecA
    \/ \E n \in ByteArgs : LdhNA(n)
    \/ Rst18
    \/ Rst38

Spec == Init /\ [][Next]_vars

----------------------------------------------------------------------------
(* Instructions called on their own, as the tests call them: the registers *)
(* are set (the fields are public), an MMU is attached, and one or two     *)
(* instruction methods are called.                                         *)

\* The most calls that follow the set-up.
MaxCalls == 2

\* F with the carry set alone, and with zero, subtract and half-carry set.
FlagArgs == {\h10, \hE0}

\* B, C and D each take every 8-bit value, and differ from each other.
AluInputs ==
    { [initialize(set_mmu(CPU_new)) EXCEPT
          !.b = v, !.c = U8(v + 37), !.d = U8(v + 74), !.f = fl] :
      v \in 0..255, fl \in FlagArgs }

PcArgs == {\h0000, \h1230, \h1234, \hFFFF}

SpArgs == {\h0000, \h0001, \h8001, \hD000, \hFEA1, \hFFFE}

OffsetArgs == {\h00, \h04, \h7F, \h80, \hFC}

JumpInputs ==
    { [initialize(set_mmu(CPU_new)) EXCEPT !.pc = p, !.sp = s, !.f = fl] :
      p \in PcArgs, s \in SpArgs, fl \in FlagArgs }

InitOn(inputs) ==
    /\ cpu \in inputs
    /\ mmu = MMU_new
    /\ last = NoCall
    /\ old = [cpu |-> cpu, mmu |-> mmu]
    /\ prev = NoPrev
    /\ nops = 0
    /\ total = 0
    /\ visited = << >>
    /\ modes = << >>
    /\ drv = NoDriver
    /\ rom = NoRom

\* A call that also keeps the call before it in prev.
PairCall(name, a1, r) ==
    /\ nops < MaxCalls
    /\ nops' = nops + 1
    /\ Call(name, a1, 0, r)
    /\ prev' = [name |-> last.name, cpu |-> old.cpu]
    /\ UNCHANGED <<total, visited, modes, drv, rom>>

IncB == PairCall("inc_b", 0, Out(inc_b(cpu), mmu, Ok(0)))

IncC == PairCall("inc_c", 0, Out(inc_c(cpu), mmu, Ok(0)))

IncD == PairCall("inc_d", 0, Out(inc_d(cpu), mmu, Ok(0)))

DecB == PairCall("dec_b", 0, Out(dec_b(cpu), mmu, Ok(0)))

DecC == PairCall("dec_c", 0, Out(dec_c(cpu), mmu, Ok(0)))

DecD == PairCall("dec_d", 0, Out(dec_d(cpu), mmu, Ok(0)))

NextAlu == IncB \/ IncC \/ IncD \/ DecB \/ DecC \/ DecD

SpecAlu == InitOn(AluInputs) /\ [][NextAlu]_vars

JrNzN(n) == PairCall("jr_nz_n", n, Out(jr_nz_n(cpu, n), mmu, Ok(0)))

PushRst18 == PairCall("rst_18", 0, rst_18(cpu, mmu))

PushRst38 == PairCall("rst_38", 0, rst_38(cpu, mmu))

NextJump ==
    \/ \E n \in OffsetArgs : JrNzN(n)
    \/ PushRst18
    \/ PushRst38

SpecJump == InitOn(JumpInputs) /\ [][NextJump]_vars

----------------------------------------------------------------------------
(* The address space after main's set-up: a ROM file is loaded, the MMU is *)
(* attached and the CPU initialised.  Then bytes are written at the ends   *)
(* of every region, the timing controller is updated and the CPU steps     *)
(* through the program of the file.                                        *)

\* The most operations that follow the set-up.
MaxMemOps == 2

\* A file of 0x8001 bytes, one more than the two banks hold: LD (HL-),A and
\* RST 38h at 0x0000, LDH (0x80),A at 0x0038, a title with a zero byte in
\* front, the header bytes, and a byte at both ends of the second bank.
LongRom ==
    [ len |-> \h8001,
      bytes |-> [i \in { \h0000, \h0001, \h0038, \h0039, \h0135, \h0136,
                         \h0147, \h0148, \h0149, \h3FFF, \h4000, \h7FFF,
                         \h8000 } |->
                    IF i = \h0000 THEN \h32
                    ELSE IF i = \h0001 THEN \hFF
                    ELSE IF i = \h0038 THEN \hE0
                    ELSE IF i = \h0039 THEN \h80
                    ELSE IF i = \h0135 THEN \h47
                    ELSE IF i = \h0136 THEN \h42
                    ELSE IF i = \h0147 THEN \h01
                    ELSE IF i = \h0148 THEN \h02
                    ELSE IF i = \h0149 THEN \h03
                    ELSE IF i = \h3FFF THEN \hAA
                    ELSE IF i = \h4000 THEN \hBB
                    ELSE IF i = \h7FFF THEN \hCC
                    ELSE \hEE] ]

\* A file shorter than one bank: RST 18h at 0x0000, LD (HL-),A at 0x0018.
ShortRom ==
    [ len |-> \h0150,
      bytes |-> [i \in {\h0000, \h0018, \h0134, \h014F} |->
                    IF i = \h0000 THEN \hDF
                    ELSE IF i = \h0018 THEN \h32
                    ELSE IF i = \h0134 THEN \h41
                    ELSE \h77] ]

RomImages == {LongRom, ShortRom}

\* Both ends of every arm of read_byte and write_byte, and 0xDDFF / 0xDE00,
\* where the mirrored part of work RAM ends.
MemAddrs ==
    { \h0000, \h3FFF, \h4000, \h7FFF, \h8000, \h9FFF, \hA000, \hBFFF,
      \hC000, \hDDFF, \hDE00, \hDFFF, \hE000, \hFDFF, \hFE00, \hFE9F,
      \hFEA0, \hFEFF, \hFF00, \hFF7F, \hFF80, \hFFFE, \hFFFF }

MemVals == {\h5A, \hFF}

\* main.rs: MMU::new, load_rom, set_mmu, initialize, debug_mode = true.
InitMem ==
    /\ rom \in RomImages
    /\ mmu = load_rom(MMU_new, rom)
    /\ cpu = [initialize(set_mmu(CPU_new)) EXCEPT !.debug_mode = TRUE]
    /\ last = NoCall
    /\ old = [cpu |-> cpu, mmu |-> mmu]
    /\ prev = NoPrev
    /\ nops = 0
    /\ total = 0
    /\ visited = << >>
    /\ modes = << >>
    /\ drv = NoDriver

MemCall(name, a1, a2, r) ==
    /\ nops < MaxMemOps
    /\ nops' = nops + 1
    /\ Call(name, a1, a2, r)
    /\ UNCHANGED <<prev, total, visited, modes, drv, rom>>

MemWrite(address, value) ==
    MemCall("write_byte", address, value,
            Out(cpu, write_byte(mmu, address, value), Ok(0)))

MemUpdateLcd == MemCall("update_lcd", ScanlineCycles, 0,
                        Out(cpu, update_lcd(mmu, ScanlineCycles), Ok(0)))

MemStep == MemCall("step", 0, 0, step(cpu, mmu))

NextMem ==
    \/ \E address \in MemAddrs, value \in MemVals : MemWrite(address, value)
    \/ MemUpdateLcd
    \/ MemStep

SpecMem == InitMem /\ [][NextMem]_vars

----------------------------------------------------------------------------
(* main: src/src/main.rs.  The debugger loop on a loaded ROM.  drv.pos is  *)
(* where main stands: at the prompt, inside the loop of "c", inside the    *)
(* loop of "r" / "t", or ended.  drv.since counts the step() calls made    *)
(* since the timing controller was last updated.                           *)

None == [some |-> FALSE, val |-> 0]

Some(v) == [some |-> TRUE, val |-> v]

\* format!("{:04X}", n): the four hexadecimal digits of n, highest first.
Hex4(n) ==
    << (n \div 4096) % 16, (n \div 256) % 16, (n \div 16) % 16, n % 16 >>

\* u16::from_str_radix(.., 16) on a string of hexadecimal digits.
RECURSIVE FromHex(_)
FromHex(digits) ==
    IF digits = << >> THEN 0
    ELSE 16 * FromHex(SubSeq(digits, 1, Len(digits) - 1)) + digits[Len(digits)]

\* An empty string or a number above 16 bits is no address.
parse_hex_address(digits) ==
    IF digits = << >> \/ Len(digits) > 4 THEN None
    ELSE Some(FromHex(digits))

\* last_crash.txt is not there.
NoFile == [some |-> FALSE, val |-> << >>]

\* file is the content of last_crash.txt, if the file is there.
load_crash_pc(file) ==
    IF file.some THEN parse_hex_address(file.val) ELSE None

\* pc - 1 on a u16 with pc = 0 panics where overflow is checked and wraps
\* to 0xFFFF where it is not; both outcomes are kept.  A failure of the
\* write only prints and is left out.
save_crash_pc(d, pc) ==
    IF pc > 0
    THEN {[d EXCEPT !.file = Some(Hex4(pc - 1))]}
    ELSE {[d EXCEPT !.pos = "panic"], [d EXCEPT !.file = Some(Hex4(\hFFFF))]}

\* for _ in 0..100
ContinueSteps == 100

\* The count of step() calls without a timing update stops here.
MaxSince == 2

\* LD SP,0xFFFE; LD B,0xC0; INC B; JR NZ,-3; XOR A; 0xCB (no instruction);
\* JP 0x0000.  The loop of INC B takes more steps than one "c" runs.
ProgramRom ==
    [ len |-> \h0150,
      bytes |-> [i \in { \h0000, \h0001, \h0002, \h0003, \h0004, \h0005,
                         \h0006, \h0007, \h0008, \h0009, \h000A } |->
                    IF i = \h0000 THEN \h31
                    ELSE IF i = \h0001 THEN \hFE
                    ELSE IF i = \h0002 THEN \hFF
                    ELSE IF i = \h0003 THEN \h06
                    ELSE IF i = \h0004 THEN \hC0
                    ELSE IF i = \h0005 THEN \h04
                    ELSE IF i = \h0006 THEN \h20
                    ELSE IF i = \h0007 THEN \hFD
                    ELSE IF i = \h0008 THEN \hAF
                    ELSE IF i = \h0009 THEN \hCB
                    ELSE \hC3] ]

\* last_crash.txt is missing, or holds the address of the 0xCB.
CrashFiles == {NoFile, Some(Hex4(\h0009))}

\* The addresses typed after "r": one the program reaches, one it does not.
TargetArgs == {\h0008, \h0100}

InitMain ==
    /\ rom = ProgramRom
    /\ mmu = load_rom(MMU_new, rom)
    /\ cpu = [initialize(set_mmu(CPU_new)) EXCEPT !.debug_mode = TRUE]
    /\ last = NoCall
    /\ old = [cpu |-> cpu, mmu |-> mmu]
    /\ prev = NoPrev
    /\ nops = 0
    /\ total = 0
    /\ visited = << >>
    /\ modes = << >>
    /\ \E file \in CrashFiles :
          drv = [ pos |-> "prompt", left |-> 0, target |-> 0,
                  last_crash_pc |-> load_crash_pc(file), file |-> file,
                  since |-> 0 ]

\* cpu.step() is called: one more step since the last timing update.
Issued(d) == [d EXCEPT !.since = IF @ < MaxSince THEN @ + 1 ELSE @]

\* The Err arm: last_crash_pc = Some(cpu.pc); save_crash_pc(cpu.pc).
Crashed(d, pc) == save_crash_pc([d EXCEPT !.last_crash_pc = Some(pc)], pc)

\* What main does with the result r of a step; d, when the step is Ok, and
\* after, when it is not, are where main goes on.  debug_mode is on again
\* when main is out of the loops of "c", "r" and "t".
MainStep(r, d, after) ==
    /\ last' = [name |-> "step", a1 |-> 0, a2 |-> 0, res |-> r.res]
    /\ old' = [cpu |-> cpu, mmu |-> mmu]
    /\ mmu' = r.mmu
    /\ IF r.res.tag = "Ok"
       THEN drv' = d
       ELSE \E c \in Crashed(Issued(drv), r.cpu.pc) :
               drv' = IF c.pos = "panic" THEN c ELSE [c EXCEPT !.pos = after]
    /\ cpu' = [r.cpu EXCEPT !.debug_mode =
                  IF drv'.pos \in {"prompt", "done"} THEN TRUE ELSE @]
    /\ UNCHANGED <<prev, nops, total, visited, modes, rom>>

\* "s": one step; an error ends the loop (running = false).
CmdS ==
    /\ drv.pos = "prompt"
    /\ MainStep(step(cpu, mmu), Issued(drv), "done")

\* "c": debug_mode off and the first of up to 100 steps.
CmdC ==
    /\ drv.pos = "prompt"
    /\ MainStep(step([cpu EXCEPT !.debug_mode = FALSE], mmu),
                [Issued(drv) EXCEPT !.pos = "cont", !.left = ContinueSteps - 1],
                "done")

\* The next step of "c"; after the last one debug_mode is on again.
ContStep ==
    /\ drv.pos = "cont"
    /\ MainStep(step(cpu, mmu),
                [Issued(drv) EXCEPT !.left = @ - 1,
                                    !.pos = IF drv.left = 1 THEN "prompt" ELSE "cont"],
                "done")

\* while !reached: a step that ends at the target ends the loop, and so
\* does an error, which leaves main running.
RunTo(target) ==
    LET r == step([cpu EXCEPT !.debug_mode = FALSE], mmu) IN
    MainStep(r,
             [Issued(drv) EXCEPT !.target = target,
                                 !.pos = IF r.cpu.pc = target THEN "prompt" ELSE "run"],
             "prompt")

\* "r" and an address.
CmdR(target) == drv.pos = "prompt" /\ RunTo(target)

\* "t": the same, to last_crash_pc, if there is one.
CmdT ==
    /\ drv.pos = "prompt"
    /\ drv.last_crash_pc.some
    /\ RunTo(drv.last_crash_pc.val)

RunStep == drv.pos = "run" /\ RunTo(drv.target)

CmdQ ==
    /\ drv.pos = "prompt"
    /\ drv' = [drv EXCEPT !.pos = "done"]
    /\ UNCHANGED <<cpu, mmu, last, old, prev, nops, total, visited, modes, rom>>

\* "h", "", an unknown command, "r" with no address, "t" with no crash PC.
CmdOther ==
    /\ drv.pos = "prompt"
    /\ UNCHANGED vars

NextMain ==
    \/ CmdS
    \/ CmdC
    \/ ContStep
    \/ \E target \in TargetArgs : CmdR(target)
    \/ CmdT
    \/ RunStep
    \/ CmdQ
    \/ CmdOther

SpecMain == InitMain /\ [][NextMain]_vars

----------------------------------------------------------------------------
(* The accumulator instructions called on their own: RRA repeated on every *)
(* value of A and of the flags' high nibble set or clear, and ADC A,C on   *)
(* every pair of A and C.  prev keeps the registers the run started from.  *)

\* The most RRA calls in a row.
MaxRotations == 9

\* The most ADC A,C calls in a row.
MaxAdds == 1

\* F with no flag, the carry alone, all but the carry, and all four.
RotFlagArgs == {\h00, \h10, \hE0, \hF0}

RotInputs ==
    { [initialize(set_mmu(CPU_new)) EXCEPT !.a = v, !.f = fl] :
      v \in 0..255, fl \in RotFlagArgs }

AdcInputs ==
    { [initialize(set_mmu(CPU_new)) EXCEPT !.a = v, !.c = w, !.f = fl] :
      v \in 0..255, w \in 0..255, fl \in FlagArgs }

\* The registers are set and kept in prev as the start of the run.
InitFrom(inputs) ==
    /\ cpu \in inputs
    /\ mmu = MMU_new
    /\ last = NoCall
    /\ old = [cpu |-> cpu, mmu |-> mmu]
    /\ prev = [name |-> "start", cpu |-> cpu]
    /\ nops = 0
    /\ total = 0
    /\ visited = << >>
    /\ modes = << >>
    /\ drv = NoDriver
    /\ rom = NoRom

Rra ==
    /\ nops < MaxRotations
    /\ nops' = nops + 1
    /\ Call("rra", 0, 0, Out(rra(cpu), mmu, Ok(0)))
    /\ UNCHANGED <<prev, total, visited, modes, drv, rom>>

NextRot == Rra

SpecRot == InitFrom(RotInputs) /\ [][NextRot]_vars

AdcAC ==
    /\ nops < MaxAdds
    /\ nops' = nops + 1
    /\ Call("adc_a_c", 0, 0, Out(adc_a_c(cpu), mmu, Ok(0)))
    /\ UNCHANGED <<prev, total, visited, modes, drv, rom>>

NextAdc == AdcAC

SpecAdc == InitFrom(AdcInputs) /\ [][NextAdc]_vars

----------------------------------------------------------------------------
(* Two engines side by side: cpu and mmu with debug_mode on, and in prev a *)
(* twin started in the same state with debug_mode off.  Every action makes *)
(* the same call on both.                                                  *)

\* The most calls made on the two engines.
MaxTwinOps == 2

\* After main's set-up on each ROM, and a new CPU with no MMU attached.
TwinStarts ==
    { [cpu |-> initialize(set_mmu(CPU_new)), mmu |-> load_rom(MMU_new, image),
       rom |-> image] : image \in RomImages \cup {ProgramRom} }
        \cup {[cpu |-> CPU_new, mmu |-> MMU_new, rom |-> NoRom]}

\* Every instruction, and a byte that is none.
TwinOpcodes == Implemented \cup {\hCB}

InitTwin ==
    /\ \E start \in TwinStarts :
          /\ cpu = [start.cpu EXCEPT !.debug_mode = TRUE]
          /\ mmu = start.mmu
          /\ rom = start.rom
          /\ prev = [name |-> "twin", cpu |-> start.cpu, mmu |-> start.mmu,
                     res |-> Ok(0)]
    /\ last = NoCall
    /\ old = [cpu |-> cpu, mmu |-> mmu]
    /\ nops = 0
    /\ total = 0
    /\ visited = << >>
    /\ modes = << >>
    /\ drv = NoDriver

\* r is what the call leaves on the engine with debug_mode on, twin what it
\* leaves on the other.
TwinCall(name, a1, r, twin) ==
    /\ nops < MaxTwinOps
    /\ nops' = nops + 1
    /\ Call(name, a1, 0, r)
    /\ prev' = [name |-> "twin", cpu |-> twin.cpu, mmu |-> twin.mmu,
                res |-> twin.res]
    /\ UNCHANGED <<total, visited, modes, drv, rom>>

TwinStep == TwinCall("step", 0, step(cpu, mmu), step(prev.cpu, prev.mmu))

TwinExecute(opcode) ==
    TwinCall("execute", opcode, execute(cpu, mmu, opcode),
             execute(prev.cpu, prev.mmu, opcode))

NextTwin ==
    \/ TwinStep
    \/ \E opcode \in TwinOpcodes : TwinExecute(opcode)

SpecTwin == InitTwin /\ [][NextTwin]_vars

----------------------------------------------------------------------------
(* load_rom on its own: files of several lengths are loaded into one MMU,  *)
(* one after the other.  rom is the file loaded last.                      *)

\* The most load_rom calls on the MMU.
MaxLoads == 3

IoError == [tag |-> "IoError", val |-> 0]

\* A file with no byte in it.
EmptyRom == [len |-> 0, bytes |-> ZeroArr]

\* A file of one bank exactly, and one of a bank and a byte.
BankRom ==
    [ len |-> \h4000,
      bytes |-> [i \in {\h0000, \h3FFF} |-> IF i = \h0000 THEN \h11 ELSE \h22] ]

BankAndByteRom ==
    [ len |-> \h4001,
      bytes |-> [i \in {\h0150, \h4000} |-> IF i = \h0150 THEN \h33 ELSE \h44] ]

LoadImages == {EmptyRom, ShortRom, BankRom, BankAndByteRom, LongRom}

LoadRom(buffer) ==
    /\ nops < MaxLoads
    /\ nops' = nops + 1
    /\ Call("load_rom", buffer.len, 0, Out(cpu, load_rom(mmu, buffer), Ok(0)))
    /\ rom' = buffer
    /\ UNCHANGED <<prev, total, visited, modes, drv>>

\* File::open or read_to_end fails: the error is returned before any byte
\* is copied.
LoadRomFails ==
    /\ nops < MaxLoads
    /\ nops' = nops + 1
    /\ Call("load_rom", 0, 0, Out(cpu, mmu, IoError))
    /\ UNCHANGED <<prev, total, visited, modes, drv, rom>>

NextLoad ==
    \/ \E buffer \in LoadImages : LoadRom(buffer)
    \/ LoadRomFails

SpecLoad == Init /\ [][NextLoad]_vars

----------------------------------------------------------------------------
(* LDH (n),A called on its own with every n, on an empty memory and on one *)
(* whose page 0xFF00..0xFFFF has been written full.                        *)

\* The most stores made.
MaxStores == 1

AccArgs == {\h00, \h5A}

\* The MMU after write_byte(address, 0xA5) for every address of the page:
\* the I/O registers, high RAM and the interrupt-enable register hold 0xA5.
FilledPage ==
    [MMU_new EXCEPT !.io_regs = [i \in 0..\h7F |-> \hA5],
                    !.hram = [i \in 0..\h7E |-> \hA5],
                    !.ie_register = \hA5]

StoreMemories == {MMU_new, FilledPage}

InitStore ==
    /\ cpu \in { [initialize(set_mmu(CPU_new)) EXCEPT !.a = v, !.f = fl] :
                 v \in AccArgs, fl \in FlagArgs }
    /\ mmu \in StoreMemories
    /\ last = NoCall
    /\ old = [cpu |-> cpu, mmu |-> mmu]
    /\ prev = NoPrev
    /\ nops = 0
    /\ total = 0
    /\ visited = << >>
    /\ modes = << >>
    /\ drv = NoDriver
    /\ rom = NoRom

StoreLdh(n) ==
    /\ nops < MaxStores
    /\ nops' = nops + 1
    /\ Call("ldh_n_a", n, 0, ldh_n_a(cpu, mmu, n))
    /\ UNCHANGED <<prev, total, visited, modes, drv, rom>>

NextStore == \E n \in 0..255 : StoreLdh(n)

SpecStore == InitStore /\ [][NextStore]_vars

----------------------------------------------------------------------------
(* step on one instruction wherever it lies: the opcode and its two        *)
(* following bytes are in the ROM file where their addresses are ROM and   *)
(* are written with write_byte where they are not, PC (a public field) is  *)
(* put at the opcode, and the CPU steps.                                   *)

\* The most steps made.
MaxFetchSteps == 2

\* ROM, work RAM, and the three addresses from which an instruction of
\* three bytes runs over the end of the address space.
FetchPcs == {\h0100, \hC000, \hFFFD, \hFFFE, \hFFFF}

\* The two bytes after the opcode, in the order of their addresses.
Immediates == {<<\h34, \h12>>, <<\h80, \hFF>>, <<\hFD, \h00>>}

\* The file that holds those of the bytes whose addresses are ROM.
CodeFile(pc, code) ==
    [ len |-> \h8000,
      bytes |-> [address \in {a \in {U16(pc + i) : i \in 0..2} : a < \h8000}
                    |-> code[((address + 65536 - pc) % 65536) + 1]] ]

\* The memory with the three bytes in place.
CodeLoaded(pc, code) ==
    LET m0 == load_rom(MMU_new, CodeFile(pc, code))
        m1 == write_byte(m0, pc, code[1])
        m2 == write_byte(m1, U16(pc + 1), code[2])
    IN  write_byte(m2, U16(pc + 2), code[3])

InitFetch ==
    \E pc \in FetchPcs, opcode \in OpcodeArgs, imm \in Immediates,
       fl \in FlagArgs :
        /\ rom = CodeFile(pc, <<opcode>> \o imm)
        /\ mmu = CodeLoaded(pc, <<opcode>> \o imm)
        /\ cpu = [initialize(set_mmu(CPU_new)) EXCEPT !.pc = pc, !.f = fl]
        /\ last = NoCall
        /\ old = [cpu |-> cpu, mmu |-> mmu]
        /\ prev = NoPrev
        /\ nops = 0
        /\ total = 0
        /\ visited = << >>
        /\ modes = << >>
        /\ drv = NoDriver

FetchStep ==
    /\ nops < MaxFetchSteps
    /\ nops' = nops + 1
    /\ Call("step", 0, 0, step(cpu, mmu))
    /\ UNCHANGED <<prev, total, visited, modes, drv, rom>>

NextFetch == FetchStep

SpecFetch == InitFetch /\ [][NextFetch]_vars

----------------------------------------------------------------------------
(* LD (HL-),A called on its own and through execute, with HL at both ends  *)
(* of every region of the address space, on the memory of a loaded ROM and *)
(* on one whose page 0xFF00..0xFFFF has been written full.                 *)

\* The most calls made.
MaxHlStores == 2

InitHl ==
    /\ rom \in {LongRom, NoRom}
    /\ mmu = IF rom = NoRom THEN FilledPage ELSE load_rom(MMU_new, rom)
    /\ cpu \in { [initialize(set_mmu(CPU_new))
                     EXCEPT !.a = v, !.f = fl,
                            !.h = hl \div 256, !.l = hl % 256] :
                 v \in AccArgs, fl \in FlagArgs, hl \in MemAddrs }
    /\ last = NoCall
    /\ old = [cpu |-> cpu, mmu |-> mmu]
    /\ prev = NoPrev
    /\ nops = 0
    /\ total = 0
    /\ visited = << >>
    /\ modes = << >>
    /\ drv = NoDriver

HlCall(name, a1, r) ==
    /\ nops < MaxHlStores
    /\ nops' = nops + 1
    /\ Call(name, a1, 0, r)
    /\ UNCHANGED <<prev, total, visited, modes, drv, rom>>

HlStore == HlCall("ld_hl_dec_a", 0, ld_hl_dec_a(cpu, mmu))

HlExecute == HlCall("execute", \h32, execute(cpu, mmu, \h32))

NextHl ==
    \/ HlStore
    \/ HlExecute

SpecHl == InitHl /\ [][NextHl]_vars

----------------------------------------------------------------------------
(* The claims.                                                              *)

Regs(c) == <<c.a, c.f, c.b, c.c, c.d, c.e, c.h, c.l, c.sp, c.pc>>

\* The opcodes whose instruction fetches an immediate or reads or writes memory.
MemOpcodes ==
    { \h06, \h0E, \h20, \h21, \h31, \h32, \h3E, \hC3, \hDF, \hE0, \hFF }

MemoryTouching ==
    \/ last.name \in { "step", "fetch_byte", "fetch_word", "ld_hl_dec_a",
                       "ldh_n_a", "rst_18", "rst_38" }
    \/ last.name = "execute" /\ last.a1 \in MemOpcodes

\* C1: a memory-touching CPU operation called while no MMU is attached
\* returns the NoMMU error and leaves every register A, F, B, C, D, E, H, L,
\* SP, PC as it was before the call.
C1_NoMMULeavesRegisters ==
    (MemoryTouching /\ ~old.cpu.has_mmu)
        => (last.res = NoMMU /\ Regs(cpu) = Regs(old.cpu))

\* C2: after write_byte(0xFF44, v), for every v, read_byte(0xFF44) returns 0
\* and the scanline counter is 0.
C2_LyWriteResets ==
    (last.name = "write_byte" /\ last.a1 = LY)
        => (read_byte(mmu, LY) = 0 /\ mmu.scanline = 0)

\* C3: after write_byte(0xFF41, v) the status register equals
\* (v & 0x78) | (old & 0x87): only bits 3-6 take the written value.
C3_StatWriteMasked ==
    (last.name = "write_byte" /\ last.a1 = STAT)
        => read_byte(mmu, STAT)
             = BitOr(BitAnd(last.a2, \h78), BitAnd(read_byte(old.mmu, STAT), \h87))

\* The last call was an update_lcd that crossed a scanline boundary.
Crossed ==
    /\ last.name = "update_lcd"
    /\ old.mmu.cycles + last.a1 >= ScanlineCycles

\* C4: when update_lcd crosses a scanline boundary the scanline counter
\* becomes (old scanline + 1) mod 154 and read_byte(0xFF44) returns that new
\* value: the write of the new scanline does not reset it.
C4_AdvanceIsNotReset ==
    Crossed => /\ mmu.scanline = (old.mmu.scanline + 1) % 154
               /\ read_byte(mmu, LY) = mmu.scanline

\* C4 witness: a crossing into scanline 3, after a software write had left
\* another value in the register.
C4_Witness ==
    /\ Crossed
    /\ mmu.scanline = 3
    /\ read_byte(mmu, LY) = 3
    /\ read_byte(old.mmu, LY) = \hA5

\* C5: from scanline 0 and an empty accumulator, update_lcd driven by calls
\* of 4 to 24 cycles each that total 456 * 154 cycles brings the scanline back
\* to 0, having entered the scanlines 1, 2, ..., 153 and then 0, each once and
\* in this order; until then the scanlines entered are 1, 2, ... up to the
\* number of whole scanline periods driven.
C5_FrameReturnsToZero ==
    /\ Len(visited) = total \div 456
    /\ visited = [i \in 1..Len(visited) |-> i % 154]
    /\ total = 456 * 154 => (mmu.scanline = 0 /\ Len(visited) = 154)

\* C5 witness: the whole frame has been driven.
C5_Witness ==
    /\ total = 456 * 154
    /\ mmu.scanline = 0
    /\ visited[153] = 153
    /\ visited[154] = 0

\* C6: within every scanline below 144 the mode takes the values 2, then 3,
\* then 0 before the scanline advances (stated of the scanlines 1..143, which
\* update_lcd has entered).
C6_ModeSequence ==
    [][(mmu'.scanline # mmu.scanline /\ mmu.scanline \in 1..143)
          => modes = <<2, 3, 0>>]_vars

\* C7: after every update_lcd call the mode is 1 if scanline >= 144, else 2
\* if the accumulator is <= 80, 3 if it is <= 252, and 0 otherwise.
C7_ModeIsFunction ==
    last.name = "update_lcd"
        => mmu.mode = IF mmu.scanline >= 144 THEN 1
                      ELSE IF mmu.cycles <= 80 THEN 2
                      ELSE IF mmu.cycles <= 252 THEN 3
                      ELSE 0

\* C8: the scanline counter is in 0..153; the mode is 1 whenever it is >= 144
\* and is never 1 while it is below 144.
C8_VBlankMode ==
    /\ mmu.scanline \in 0..153
    /\ mmu.scanline >= 144 => mmu.mode = 1
    /\ mmu.scanline < 144 => mmu.mode # 1

\* C8 witness: a software write to LY during VBlank, and VBlank it stays.
C8_Witness ==
    /\ last.name = "write_byte"
    /\ last.a1 = LY
    /\ mmu.scanline = 150
    /\ mmu.mode = 1

\* C9: after an update_lcd that recomputes the mode, bits 0-1 of the status
\* register equal the new mode and bits 2-7 are what they were before the call.
C9_StatLowBitsOnly ==
    Crossed => /\ BitAnd(read_byte(mmu, STAT), \h03) = mmu.mode
               /\ BitAnd(read_byte(mmu, STAT), \hFC)
                    = BitAnd(read_byte(old.mmu, STAT), \hFC)

\* C9 witness: the status register held 0xA5 and the new mode is 3.
C9_Witness ==
    /\ Crossed
    /\ read_byte(old.mmu, STAT) = \hA5
    /\ mmu.mode = 3
    /\ read_byte(mmu, STAT) = \hA7

\* C10: after update_lcd(cycles), for any cycles, the accumulator is below 456
\* and the scanline has advanced by floor((accumulator before + cycles) / 456)
\* modulo 154.
C10_EveryPeriodAdvances ==
    last.name = "update_lcd"
        => /\ mmu.cycles < 456
           /\ mmu.scanline
                = (old.mmu.scanline + (old.mmu.cycles + last.a1) \div 456) % 154

\* C12: execute(opcode) is total over the 256 byte values: an opcode with no
\* match arm returns UnknownOpcode carrying that byte and changes nothing (it
\* is no silent Ok), an opcode with a match arm never returns
\* UnknownOpcode, and NOP (0x00) is the byte that returns Ok with nothing
\* changed by design.
C12_ExecuteTotal ==
    last.name = "execute"
        => /\ last.res.tag \in {"Ok", "NoMMU", "UnknownOpcode"}
           /\ last.a1 \notin Implemented
                => /\ last.res.tag = "UnknownOpcode"
                   /\ last.res.val = last.a1
                   /\ cpu = old.cpu
                   /\ mmu = old.mmu
           /\ last.a1 \in Implemented => last.res.tag # "UnknownOpcode"
           /\ last.a1 = \h00
                => (last.res.tag = "Ok" /\ cpu = old.cpu /\ mmu = old.mmu)

\* C12 witness: execute(0xCB), the prefix byte, with an MMU attached, and
\* before it an implemented opcode other than NOP that was carried out.
C12_Witness ==
    /\ last.name = "execute"
    /\ last.a1 = \hCB
    /\ last.res.tag = "UnknownOpcode"
    /\ last.res.val = \hCB
    /\ cpu.has_mmu
    /\ cpu.b = 1

----------------------------------------------------------------------------
(* Claims about single instructions, under SpecAlu and SpecJump.           *)

IncNames == {"inc_b", "inc_c", "inc_d"}

DecNames == {"dec_b", "dec_c", "dec_d"}

\* The register an increment or decrement works on.
RegOf(name) ==
    IF name \in {"inc_b", "dec_b"} THEN "b"
    ELSE IF name \in {"inc_c", "dec_c"} THEN "c"
    ELSE "d"

\* n as a two's-complement 8-bit offset.
Signed(n) == IF n >= 128 THEN n - 256 ELSE n

\* An address write_byte stores to: not ROM and not 0xFEA0..0xFEFF.
Stored(address) ==
    address >= \h8000 /\ ~(address >= \hFEA0 /\ address <= \hFEFF)

RstTarget(name) == IF name = "rst_18" THEN \h0018 ELSE \h0038

\* What RST does to the registers: SP down by two, PC at the target,
\* everything else as before.
RstRegisters ==
    cpu = [old.cpu EXCEPT !.sp = (old.cpu.sp + 65536 - 2) % 65536,
                          !.pc = RstTarget(last.name)]

\* C17 as stated: after RST 18h / RST 38h with an MMU attached, SP is SP - 2,
\* PC is the target, nothing else changed, and reading SP_before-1 and
\* SP_before-2 returns the high and the low byte of the prior PC.
C17_PushReadsBack ==
    (last.name \in {"rst_18", "rst_38"} /\ old.cpu.has_mmu)
        => /\ RstRegisters
           /\ last.res = Ok(0)
           /\ read_byte(mmu, (old.cpu.sp + 65536 - 1) % 65536) = old.cpu.pc \div 256
           /\ read_byte(mmu, (old.cpu.sp + 65536 - 2) % 65536) = old.cpu.pc % 256

\* C17 amended: the registers as stated; the two bytes read back from each of
\* the two addresses that write_byte stores to, and an address in ROM or in
\* 0xFEA0..0xFEFF reads what it read before the push.
C17_PushStoresWhereWritable ==
    (last.name \in {"rst_18", "rst_38"} /\ old.cpu.has_mmu)
        => LET hi == (old.cpu.sp + 65536 - 1) % 65536
               lo == (old.cpu.sp + 65536 - 2) % 65536
           IN  /\ RstRegisters
               /\ last.res = Ok(0)
               /\ read_byte(mmu, hi) =
                      IF Stored(hi) THEN old.cpu.pc \div 256
                      ELSE read_byte(old.mmu, hi)
               /\ read_byte(mmu, lo) =
                      IF Stored(lo) THEN old.cpu.pc % 256
                      ELSE read_byte(old.mmu, lo)

C17_Witness ==
    /\ last.name = "rst_38"
    /\ old.cpu.sp = \hFFFE
    /\ old.cpu.pc = \h1234
    /\ cpu.sp = \hFFFC
    /\ cpu.pc = \h0038
    /\ read_byte(mmu, \hFFFD) = \h12
    /\ read_byte(mmu, \hFFFC) = \h34

\* C18: JR NZ,n adds n as a signed 8-bit offset to PC (mod 2^16) when the
\* zero flag is clear and leaves PC alone when it is set; no flag, no other
\* register and no memory changes. From 0x1230, 0x04 gives 0x1234 and 0xFC
\* gives 0x122C.
C18_RelativeJump ==
    last.name = "jr_nz_n"
        => LET n == last.a1
               taken == ~get_flag(old.cpu, ZERO_FLAG)
           IN  /\ cpu = [old.cpu EXCEPT !.pc =
                            IF taken
                            THEN (old.cpu.pc + Signed(n) + 65536) % 65536
                            ELSE old.cpu.pc]
               /\ mmu = old.mmu
               /\ (taken /\ old.cpu.pc = \h1230 /\ n = \h04) => cpu.pc = \h1234
               /\ (taken /\ old.cpu.pc = \h1230 /\ n = \hFC) => cpu.pc = \h122C

C18_Witness ==
    /\ last.name = "jr_nz_n"
    /\ last.a1 = \hFC
    /\ ~get_flag(old.cpu, ZERO_FLAG)
    /\ old.cpu.pc = \h1230
    /\ cpu.pc = \h122C

----------------------------------------------------------------------------
(* Claims about the address space, under SpecMem.                          *)

\* The arrays of the MMU and their lengths.
ArraySize ==
    [ rom_bank0 |-> \h4000, rom_bankn |-> \h4000, vram |-> \h2000,
      ext_ram |-> \h2000, wram |-> \h2000, oam |-> \hA0, io_regs |-> \h80,
      hram |-> \h7F ]

\* The arms of read_byte: the range, the array and the address of its cell 0.
ReadArms ==
    { [lo |-> \h0000, hi |-> \h3FFF, region |-> "rom_bank0", base |-> \h0000],
      [lo |-> \h4000, hi |-> \h7FFF, region |-> "rom_bankn", base |-> \h4000],
      [lo |-> \h8000, hi |-> \h9FFF, region |-> "vram", base |-> \h8000],
      [lo |-> \hA000, hi |-> \hBFFF, region |-> "ext_ram", base |-> \hA000],
      [lo |-> \hC000, hi |-> \hDFFF, region |-> "wram", base |-> \hC000],
      [lo |-> \hE000, hi |-> \hFDFF, region |-> "wram", base |-> \hE000],
      [lo |-> \hFE00, hi |-> \hFE9F, region |-> "oam", base |-> \hFE00],
      [lo |-> \hFF00, hi |-> \hFF7F, region |-> "io_regs", base |-> \hFF00],
      [lo |-> \hFF80, hi |-> \hFFFE, region |-> "hram", base |-> \hFF80],
      [lo |-> \hFFFF, hi |-> \hFFFF, region |-> "ie_register", base |-> \hFFFF] }

ArmsOf(address) == {r \in ReadArms : r.lo <= address /\ address <= r.hi}

Unmapped(address) == address >= \hFEA0 /\ address <= \hFEFF

\* The regions of the round trip: video, external and work RAM, the sprite
\* table, high RAM and the interrupt-enable register.
RoundTrip(address) ==
    \/ address >= \h8000 /\ address <= \hDFFF
    \/ address >= \hFE00 /\ address <= \hFE9F
    \/ address >= \hFF80 /\ address <= \hFFFF

\* The byte of the file at a ROM address (0 where the file has ended).
Loaded(address) == IF address < rom.len THEN Get(rom.bytes, address) ELSE 0

\* The ROM addresses that hold a non-zero byte, in the file or in the banks,
\* and both ends of both banks.
RomAddrs ==
    {i \in DOMAIN rom.bytes : i <= \h7FFF}
        \cup DOMAIN mmu.rom_bank0
        \cup {i + \h4000 : i \in DOMAIN mmu.rom_bankn}
        \cup {\h0000, \h3FFF, \h4000, \h7FFF}

\* C13: ROM is read-only: every ROM address reads the byte of the loaded
\* file after any sequence of writes, timing updates and CPU steps, and a
\* write_byte to 0x0000..0x7FFF leaves the whole MMU (every read) as it was.
C13_RomReadOnly ==
    /\ \A address \in RomAddrs : read_byte(mmu, address) = Loaded(address)
    /\ (last.name = "write_byte" /\ last.a1 <= \h7FFF) => mmu = old.mmu
    /\ nops = 0
         => \A address \in 0..\h7FFF, value \in MemVals :
               write_byte(mmu, address, value) = mmu

C13_Witness ==
    /\ rom = LongRom
    /\ last.name = "write_byte"
    /\ last.a1 = \h4000
    /\ last.a2 = \h5A
    /\ read_byte(mmu, \h4000) = \hBB
    /\ read_byte(mmu, \h0000) = \h32
    /\ cpu.pc = 1
    /\ cpu.l = \h4C

\* C14: a byte written to video RAM, external RAM, work RAM, the sprite
\* table, high RAM or the interrupt-enable register is the byte read back
\* from the same address.
C14_WriteReadRoundTrip ==
    /\ (last.name = "write_byte" /\ RoundTrip(last.a1))
         => read_byte(mmu, last.a1) = last.a2
    /\ nops = 0
         => \A address \in \h8000..\hFFFF, value \in MemVals :
               RoundTrip(address)
                   => read_byte(write_byte(mmu, address, value), address) = value

C14_Witness ==
    /\ last.name = "write_byte"
    /\ last.a1 = \hFFFE
    /\ last.a2 = \h5A
    /\ read_byte(old.mmu, \hFFFE) = \hFF
    /\ read_byte(mmu, \hFFFE) = \h5A

\* C15: 0xE000 + k reads what 0xC000 + k reads for every k in 0..0x1DFF, in
\* every state, and a byte written through either address is read through
\* both.
C15_EchoMirrors ==
    /\ \A k \in (DOMAIN mmu.wram \cup {\h0000, \h1DFF}) :
          k <= \h1DFF => read_byte(mmu, \hE000 + k) = read_byte(mmu, \hC000 + k)
    /\ (last.name = "write_byte" /\ last.a1 >= \hC000 /\ last.a1 <= \hDDFF)
         => /\ read_byte(mmu, last.a1) = last.a2
            /\ read_byte(mmu, last.a1 + \h2000) = last.a2
    /\ (last.name = "write_byte" /\ last.a1 >= \hE000 /\ last.a1 <= \hFDFF)
         => /\ read_byte(mmu, last.a1) = last.a2
            /\ read_byte(mmu, last.a1 - \h2000) = last.a2
    /\ nops = 0
         => \A k \in 0..\h1DFF, value \in MemVals :
               LET viaWork == write_byte(mmu, \hC000 + k, value)
                   viaEcho == write_byte(mmu, \hE000 + k, value)
               IN  /\ read_byte(viaWork, \hE000 + k) = value
                   /\ read_byte(viaEcho, \hC000 + k) = value
                   /\ viaWork = viaEcho

C15_Witness ==
    /\ last.name = "write_byte"
    /\ last.a1 = \hFDFF
    /\ last.a2 = \h5A
    /\ read_byte(old.mmu, \hDDFF) = \hFF
    /\ read_byte(mmu, \hDDFF) = \h5A
    /\ read_byte(mmu, \hFDFF) = \h5A

\* C16: every 16-bit address falls in exactly one arm of the decoding, with
\* an index inside the array of that arm, or in 0xFEA0..0xFEFF; an address
\* of 0xFEA0..0xFEFF reads 0xFF in every state and a write to it changes
\* nothing.
C16_DecodingTotal ==
    /\ \A address \in {\hFEA0, \hFEC3, \hFEFF} : read_byte(mmu, address) = \hFF
    /\ (last.name = "write_byte" /\ Unmapped(last.a1))
         => (mmu = old.mmu /\ cpu = old.cpu)
    /\ nops = 0
         => \A address \in 0..\hFFFF :
               LET arms == ArmsOf(address) IN
               /\ Cardinality(arms) <= 1
               /\ (arms = {}) = Unmapped(address)
               /\ Unmapped(address)
                    => /\ read_byte(mmu, address) = \hFF
                       /\ write_byte(mmu, address, \h5A) = mmu
               /\ \A r \in arms :
                     IF r.region = "ie_register"
                     THEN read_byte(mmu, address) = mmu.ie_register
                     ELSE /\ address - r.base < ArraySize[r.region]
                          /\ read_byte(mmu, address)
                               = Get(mmu[r.region], address - r.base)

C16_Witness ==
    /\ last.name = "write_byte"
    /\ last.a1 = \hFEA0
    /\ last.a2 = \h5A
    /\ nops = 2
    /\ read_byte(mmu, \hFE9F) = \h5A
    /\ read_byte(mmu, \hFEA0) = \hFF

----------------------------------------------------------------------------
(* The claim about the driver, under SpecMain.                             *)

\* C11: in the driving loop every step() is followed by an update of the
\* timing controller with the step's cycle count before the next step() is
\* issued: no two step() calls without a timing update between them.
C11_StepThenTimingUpdate == drv.since <= 1

----------------------------------------------------------------------------
(* Claims about the accumulator instructions, under SpecRot and SpecAdc.   *)

CarryBit(c) == IF get_flag(c, CARRY_FLAG) THEN 1 ELSE 0

\* C21: RRA rotates the nine bits of {carry, A}: after nine RRA calls in a
\* row A and the carry flag are what they were before the first, for every
\* value of A and of the carry.
C21_NineRotationsRestore ==
    (last.name = "rra" /\ nops = 9)
        => /\ cpu.a = prev.cpu.a
           /\ get_flag(cpu, CARRY_FLAG) = get_flag(prev.cpu, CARRY_FLAG)

C21_Witness ==
    /\ last.name = "rra"
    /\ nops = 9
    /\ prev.cpu.a = \hA5
    /\ ~get_flag(prev.cpu, CARRY_FLAG)
    /\ old.cpu.a = \h4A
    /\ get_flag(old.cpu, CARRY_FLAG)
    /\ cpu.a = \hA5
    /\ ~get_flag(cpu, CARRY_FLAG)

\* C22: one RRA sets A to (A >> 1) | (carry << 7) and the carry to bit 0 of
\* the old A, and clears zero, subtract and half-carry whatever the result
\* is, also when it is 0; nothing else changes.
C22_RraResultAndFlags ==
    last.name = "rra"
        => LET a == old.cpu.a
               result == (a \div 2) + 128 * CarryBit(old.cpu)
           IN  /\ cpu.a = result
               /\ get_flag(cpu, CARRY_FLAG) = (a % 2 = 1)
               /\ ~get_flag(cpu, ZERO_FLAG)
               /\ ~get_flag(cpu, SUBTRACT_FLAG)
               /\ ~get_flag(cpu, HALF_CARRY_FLAG)
               /\ cpu = [old.cpu EXCEPT !.a = result,
                                        !.f = IF a % 2 = 1 THEN \h10 ELSE \h00]
               /\ mmu = old.mmu

C22_Witness ==
    /\ last.name = "rra"
    /\ old.cpu.a = \h01
    /\ old.cpu.f = \hE0
    /\ cpu.a = \h00
    /\ cpu.f = \h10

\* C23: ADC A,C for every A, C and carry-in: A becomes (A + C + cin) mod 256,
\* half-carry = ((A & 0xF) + (C & 0xF) + cin > 0xF), carry = (A + C + cin >
\* 0xFF), zero = (the new A = 0), subtract is clear, and C and every other
\* register are unchanged.
C23_AdcSumAndFlags ==
    last.name = "adc_a_c"
        => LET a == old.cpu.a
               w == old.cpu.c
               cin == CarryBit(old.cpu)
               sum == a + w + cin
           IN  /\ cpu.a = sum % 256
               /\ get_flag(cpu, HALF_CARRY_FLAG) = ((a % 16) + (w % 16) + cin > 15)
               /\ get_flag(cpu, CARRY_FLAG) = (sum > 255)
               /\ get_flag(cpu, ZERO_FLAG) = (sum % 256 = 0)
               /\ ~get_flag(cpu, SUBTRACT_FLAG)
               /\ cpu.c = w
               /\ cpu = [old.cpu EXCEPT !.a = cpu.a, !.f = cpu.f]
               /\ cpu.f % 16 = 0
               /\ mmu = old.mmu

C23_Witness ==
    /\ last.name = "adc_a_c"
    /\ old.cpu.a = \hFF
    /\ old.cpu.c = \hFF
    /\ get_flag(old.cpu, CARRY_FLAG)
    /\ cpu.a = \hFF
    /\ cpu.c = \hFF
    /\ cpu.f = \h30

----------------------------------------------------------------------------
(* Claims about the whole CPU, under Spec.                                  *)

\* The opcode the last call carried out: the argument of execute, or the
\* byte step fetched at PC.
Executed ==
    IF last.name = "execute" THEN last.a1
    ELSE read_byte(old.mmu, old.cpu.pc)

\* C24: CP n (opcode 0xFE, n the byte at PC) returns Ok, sets subtract,
\* zero iff A = n, carry iff A < n, half-carry iff (A & 0xF) < (n & 0xF),
\* and leaves A as it was.
C24_CompareImmediate ==
    (last.name = "execute" /\ last.a1 = \hFE /\ old.cpu.has_mmu)
        => LET a == old.cpu.a
               n == read_byte(old.mmu, old.cpu.pc)
           IN  /\ last.res.tag = "Ok"
               /\ get_flag(cpu, SUBTRACT_FLAG)
               /\ get_flag(cpu, ZERO_FLAG) = (a = n)
               /\ get_flag(cpu, CARRY_FLAG) = (a < n)
               /\ get_flag(cpu, HALF_CARRY_FLAG) = (a % 16 < n % 16)
               /\ cpu.a = a

\* C25: bits 0-3 of F are zero in every state the CPU reaches by
\* initialize, step, execute and the other public methods.
C25_FlagLowNibbleZero == BitAnd(cpu.f, \h0F) = 0

C25_Witness ==
    /\ last.name = "execute"
    /\ last.a1 = \h05
    /\ old.cpu.f = \hB0
    /\ cpu.f = \h70
    /\ cpu.b = \hFF

\* The last call carried out the instruction of this opcode, and to the end.
Did(opcode) ==
    /\ last.res.tag = "Ok"
    /\ \/ last.name = "execute" /\ last.a1 = opcode
       \/ last.name = "step" /\ Executed = opcode

\* The registers the instruction started from: step has fetched the opcode.
Fetched ==
    IF last.name = "step"
    THEN [old.cpu EXCEPT !.pc = (old.cpu.pc + 1) % 65536]
    ELSE old.cpu

\* C29: the interrupt-master-enable flag is true on a new CPU, false after
\* DI and true after EI, and DI and EI change nothing else; no other
\* instruction or method, initialize among them, changes it.
C29_InterruptMasterEnable ==
    /\ last.name = "new" => cpu.interrupt_enabled
    /\ Did(\hF3)
         => /\ cpu = [Fetched EXCEPT !.interrupt_enabled = FALSE]
            /\ mmu = old.mmu
    /\ Did(\hFB)
         => /\ cpu = [Fetched EXCEPT !.interrupt_enabled = TRUE]
            /\ mmu = old.mmu
    /\ ~(Did(\hF3) \/ Did(\hFB))
         => cpu.interrupt_enabled = old.cpu.interrupt_enabled

C29_Witness ==
    /\ last.name = "execute"
    /\ last.a1 = \hFB
    /\ ~old.cpu.interrupt_enabled
    /\ cpu.interrupt_enabled
    /\ cpu.f = \hB0

\* C30: initialize(), called in any state, sets A=0x01 F=0xB0 B=0x00 C=0x13
\* D=0x00 E=0xD8 H=0x01 L=0x4D SP=0xFFFE PC=0x0000, a second call changes
\* nothing, and the attached MMU, its contents and the other fields of the
\* CPU are as before.
C30_InitializeState ==
    last.name = "initialize"
        => /\ cpu.a = \h01 /\ cpu.f = \hB0
           /\ cpu.b = \h00 /\ cpu.c = \h13
           /\ cpu.d = \h00 /\ cpu.e = \hD8
           /\ cpu.h = \h01 /\ cpu.l = \h4D
           /\ cpu.sp = \hFFFE /\ cpu.pc = \h0000
           /\ cpu.has_mmu = old.cpu.has_mmu
           /\ cpu.debug_mode = old.cpu.debug_mode
           /\ cpu.interrupt_enabled = old.cpu.interrupt_enabled
           /\ mmu = old.mmu
           /\ initialize(cpu) = cpu

C30_Witness ==
    /\ last.name = "initialize"
    /\ old.cpu.has_mmu
    /\ old.cpu.pc = 2
    /\ old.cpu.f = 0
    /\ cpu.pc = 0
    /\ cpu.f = \hB0

----------------------------------------------------------------------------
(* The claim about debug_mode, under SpecTwin.                             *)

\* C26: an engine with debug_mode on and one with it off, started in the
\* same state and given the same calls, return the same result at every
\* call and stay equal in every register, in the interrupt-enable flag and
\* in the memory.
C26_DebugModeObserves ==
    /\ cpu.debug_mode
    /\ ~prev.cpu.debug_mode
    /\ prev.res = last.res
    /\ prev.cpu = [cpu EXCEPT !.debug_mode = FALSE]
    /\ prev.mmu = mmu

C26_Witness ==
    /\ rom = LongRom
    /\ last.name = "step"
    /\ nops = 2
    /\ cpu.debug_mode
    /\ cpu.pc = \h0038
    /\ prev.cpu.pc = \h0038
    /\ cpu.l = \h4C
    /\ read_byte(mmu, \hFFFC) = \h02
    /\ read_byte(prev.mmu, \hFFFC) = \h02

----------------------------------------------------------------------------
(* The claim about load_rom, under SpecLoad.                               *)

\* C27: after load_rom of a buffer of any length, an address of the first
\* bank reads the byte of the buffer at that offset (where the buffer has
\* one), an address of the second bank reads the byte at its offset if the
\* buffer is that long and 0 if it is not; bytes from offset 0x8000 on are
\* not loaded.
C27_LoadedBanks ==
    (last.name = "load_rom" /\ last.res.tag = "Ok")
        => \A address \in RomAddrs :
              (address < rom.len \/ address >= \h4000)
                  => read_byte(mmu, address) = Loaded(address)

----------------------------------------------------------------------------
(* The claim about LDH (n),A, under SpecStore.                             *)

\* C28: LDH (n),A with an MMU attached writes A at 0xFF00 | n for every n
\* in 0..255, so that the address reads A afterwards, and changes no
\* register and no flag.
C28_LdhStoresA ==
    (last.name = "ldh_n_a" /\ old.cpu.has_mmu)
        => LET address == \hFF00 + last.a1 IN
           /\ last.res = Ok(0)
           /\ cpu = old.cpu
           /\ mmu = write_byte(old.mmu, address, old.cpu.a)
           /\ read_byte(mmu, address) = old.cpu.a

C28_Witness ==
    /\ last.name = "ldh_n_a"
    /\ last.a1 = \h80
    /\ old.cpu.a = \h5A
    /\ read_byte(old.mmu, \hFF80) = \hA5
    /\ read_byte(mmu, \hFF80) = \h5A
    /\ read_byte(mmu, \hFF81) = \hA5

----------------------------------------------------------------------------
(* The claims about step, under SpecFetch.                                 *)

\* The byte that lay i addresses after PC when the last call began.
CodeByte(i) == read_byte(old.mmu, (old.cpu.pc + i) % 65536)

\* The 16-bit immediate of the instruction at PC.
CodeWord == CodeByte(2) * 256 + CodeByte(1)

\* The length of the instruction of an opcode in bytes.
Length(opcode) ==
    IF opcode \in {\h21, \h31, \hC3} THEN 3
    ELSE IF opcode \in {\h06, \h0E, \h20, \h3E, \hE0} THEN 2
    ELSE 1

\* The address after the instruction at PC.
NextPc == (old.cpu.pc + Length(CodeByte(0))) % 65536

\* C31: step fetches the opcode at PC and the immediate bytes at the
\* addresses after it, and PC has advanced by the length of the instruction
\* (1, 2 or 3, modulo 2^16) before the instruction acts: a jump starts from
\* there and RST pushes that address.  A 16-bit immediate is
\* mem[PC+2] << 8 | mem[PC+1]: LD SP,nn and LD HL,nn leave it in SP and in
\* HL with F unchanged and PC three further, JP nn leaves it in PC.
C31_FetchAndImmediates ==
    (last.name = "step" /\ last.res.tag = "Ok")
        => LET opcode == CodeByte(0) IN
           /\ opcode \notin {\h20, \hC3, \hDF, \hFF} => cpu.pc = NextPc
           /\ opcode = \h31
                => cpu = [old.cpu EXCEPT !.sp = CodeWord,
                                         !.pc = (old.cpu.pc + 3) % 65536]
           /\ opcode = \h21
                => cpu = [old.cpu EXCEPT !.h = CodeByte(2), !.l = CodeByte(1),
                                         !.pc = (old.cpu.pc + 3) % 65536]
           /\ opcode = \hC3 => cpu = [old.cpu EXCEPT !.pc = CodeWord]
           /\ opcode = \h06 => cpu = [old.cpu EXCEPT !.b = CodeByte(1),
                                                     !.pc = NextPc]
           /\ opcode = \h0E => cpu = [old.cpu EXCEPT !.c = CodeByte(1),
                                                     !.pc = NextPc]
           /\ opcode = \h3E => cpu = [old.cpu EXCEPT !.a = CodeByte(1),
                                                     !.pc = NextPc]
           /\ opcode = \hE0
                => read_byte(mmu, \hFF00 + CodeByte(1)) = old.cpu.a
           /\ opcode = \h20
                => cpu.pc = IF old.cpu.f >= 128 THEN NextPc
                            ELSE (NextPc + 65536 + Signed(CodeByte(1))) % 65536
           /\ opcode \in {\hDF, \hFF}
                => /\ cpu.pc = IF opcode = \hDF THEN \h0018 ELSE \h0038
                   /\ (RoundTrip(cpu.sp) /\ RoundTrip((cpu.sp + 1) % 65536))
                        => /\ read_byte(mmu, cpu.sp) = NextPc % 256
                           /\ read_byte(mmu, (cpu.sp + 1) % 65536)
                                = NextPc \div 256

\* LD SP,0x1234 whose opcode is the last byte of the address space and
\* whose immediate is the first two bytes of the ROM.
C31_Witness ==
    /\ last.name = "step"
    /\ last.res.tag = "Ok"
    /\ old.cpu.pc = \hFFFF
    /\ read_byte(old.mmu, \hFFFF) = \h31
    /\ read_byte(old.mmu, \h0000) = \h34
    /\ read_byte(old.mmu, \h0001) = \h12
    /\ cpu.sp = \h1234
    /\ cpu.pc = \h0002
    /\ cpu.f = old.cpu.f

----------------------------------------------------------------------------
(* The claim about LD (HL-),A, under SpecHl.                               *)

\* HL when the last call began, and one less modulo 2^16.
OldHl == old.cpu.h * 256 + old.cpu.l

OldHlLess == (OldHl + 65535) % 65536

\* C32: LD (HL-),A with an MMU attached writes A through the MMU at the
\* address HL held before it, so that a stored address reads A, and HL is
\* then HL - 1 modulo 2^16; where the address is ROM or unmapped the write
\* is dropped and HL is decremented all the same; A, the flags and the
\* other registers are as before.
C32_StoreAndDecrement ==
    ((last.name = "ld_hl_dec_a" \/ (last.name = "execute" /\ last.a1 = \h32))
        /\ old.cpu.has_mmu)
        => /\ last.res.tag = "Ok"
           /\ cpu = [old.cpu EXCEPT !.h = OldHlLess \div 256,
                                    !.l = OldHlLess % 256]
           /\ mmu = write_byte(old.mmu, OldHl, old.cpu.a)
           /\ Stored(OldHl) => read_byte(mmu, OldHl) = old.cpu.a
           /\ ~Stored(OldHl) => mmu = old.mmu

\* HL = 0x0000: the write to ROM is dropped and HL becomes 0xFFFF.
C32_Witness ==
    /\ last.name = "ld_hl_dec_a"
    /\ old.cpu.h = 0 /\ old.cpu.l = 0
    /\ old.cpu.a = \h5A
    /\ read_byte(mmu, \h0000) = \h32
    /\ cpu.h = \hFF /\ cpu.l = \hFF
    /\ cpu.a = \h5A
    /\ cpu.f = old.cpu.f

----------------------------------------------------------------------------
(* The claim about the footprint of write_byte, under SpecMem.             *)

\* The other address of the cell of work RAM that has two: 0xC000 + k and
\* 0xE000 + k for k in 0..0x1DFF.  Any other address is its own partner.
EchoPartner(address) ==
    IF address >= \hC000 /\ address <= \hDDFF THEN address + \h2000
    ELSE IF address >= \hE000 /\ address <= \hFDFF THEN address - \h2000
    ELSE address

\* The addresses at which read_byte finds a non-zero cell of m.  At every
\* other address read_byte returns 0, or 0xFF in 0xFEA0..0xFEFF, whatever
\* the memory holds elsewhere.
Holding(m) ==
    DOMAIN m.rom_bank0
        \cup {i + \h4000 : i \in DOMAIN m.rom_bankn}
        \cup {i + \h8000 : i \in DOMAIN m.vram}
        \cup {i + \hA000 : i \in DOMAIN m.ext_ram}
        \cup {i + \hC000 : i \in DOMAIN m.wram}
        \cup {i + \hE000 : i \in {k \in DOMAIN m.wram : k <= \h1DFF}}
        \cup {i + \hFE00 : i \in DOMAIN m.oam}
        \cup {i + \hFF00 : i \in DOMAIN m.io_regs}
        \cup {i + \hFF80 : i \in DOMAIN m.hram}
        \cup {\hFFFF}

\* C33: after write_byte(addr, v) every address other than addr and other
\* than addr's echo partner reads what it read before (the addresses that
\* hold a non-zero cell before or after are all that can differ), and the
\* cartridge header, the timing accumulator and the mode are unchanged.
C33_WriteFootprint ==
    last.name = "write_byte"
        => /\ \A b \in Holding(old.mmu) \cup Holding(mmu) \cup MemAddrs :
                 (b # last.a1 /\ b # EchoPartner(last.a1))
                     => read_byte(mmu, b) = read_byte(old.mmu, b)
           /\ mmu.header = old.mmu.header
           /\ mmu.cycles = old.mmu.cycles
           /\ mmu.mode = old.mmu.mode

\* A write to 0xDFFF, which has no echo partner, after a write to 0xFFFE,
\* on the memory of the long ROM.
C33_Witness ==
    /\ last.name = "write_byte"
    /\ last.a1 = \hDFFF
    /\ last.a2 = \h5A
    /\ rom = LongRom
    /\ read_byte(old.mmu, \hDFFF) = 0
    /\ read_byte(mmu, \hDFFF) = \h5A
    /\ read_byte(mmu, \hFDFF) = 0
    /\ read_byte(mmu, \hFFFE) = \hFF
    /\ read_byte(mmu, \h7FFF) = \hCC
    /\ mmu.header = old.mmu.header
    /\ mmu.header.cartridge_type = \h01

\* C34: when step fails with UnknownOpcode(b), b is the byte that lay at
\* PC before the step, PC is one further (modulo 2^16), every other
\* register, the interrupt-enable flag and the memory are as before, and so
\* the faulting instruction lies at PC - 1 (modulo 2^16).
C34_UnknownOpcodeFault ==
    (last.name = "step" /\ last.res.tag = "UnknownOpcode")
        => LET fault == (cpu.pc + 65535) % 65536 IN
           /\ last.res.val = read_byte(old.mmu, old.cpu.pc)
           /\ last.res.val \notin Implemented
           /\ cpu = [old.cpu EXCEPT !.pc = (old.cpu.pc + 1) % 65536]
           /\ mmu = old.mmu
           /\ fault = old.cpu.pc
           /\ read_byte(mmu, fault) = last.res.val

\* The byte 0xCB at 0xFFFF: PC wraps to 0x0000 and the fault lies at 0xFFFF.
C34_Witness ==
    /\ last.name = "step"
    /\ last.res.tag = "UnknownOpcode"
    /\ last.res.val = \hCB
    /\ old.cpu.pc = \hFFFF
    /\ cpu.pc = \h0000
    /\ cpu.sp = \hFFFE
    /\ cpu.interrupt_enabled
    /\ read_byte(mmu, \hFFFF) = \hCB

============================================================================
